---- MODULE Spec2Model ----
(***************************************************************************)
(* Resilient cloud-resource access layer of the StrataGPT frontend:        *)
(*   - withRetry / handleAWSError / error classification / CircuitBreaker  *)
(*     (frontend/app/lib/utils/aws-error-handler.ts)                       *)
(*   - the credential cache and its refresh timer                          *)
(*     (frontend/app/lib/aws-config.ts)                                    *)
(*   - S3Service.uploadDocument / multipartUpload and the operations on a  *)
(*     caller-supplied key (frontend/app/lib/services/s3-service.ts)       *)
(* Each subsystem has its own specification over the shared variables;     *)
(* async functions are split into one action per await point.              *)
(***************************************************************************)
EXTENDS Integers, Sequences, FiniteSets, TLC

(***************************************************************************)
(* Bounds of the model                                                     *)
(***************************************************************************)
MaxAttemptsBound == 3
MaxInitialDelay == 2
MaxDelayBound == 2
MaxMultiplier == 2
MaxTime == 5
MaxIssued == 2
NumCallers == 2
MaxThreshold == 2
MaxResetTimeout == 2
MaxHalfOpenRequests == 2
MaxFailures == 4
MaxFileSize == 25
MaxInterval == 2
MaxBackoffAttempt == 3
RandomSteps == 4
MaxTimers == 2

Min(a, b) == IF a < b THEN a ELSE b

Last(s) == s[Len(s)]

(***************************************************************************)
(* Strings are sequences of one-character strings, so that toLowerCase and *)
(* includes are computed character by character.  An absent (undefined)    *)
(* message and the empty message are both <<>>: every use in the source    *)
(* goes through a truthiness test that treats the two alike.  Likewise an  *)
(* absent code is "" and an absent status is 0.                            *)
(***************************************************************************)
UpperChars == <<"A", "B", "C", "D", "E", "F", "G", "H", "I", "J", "K", "L", "M",
                "N", "O", "P", "Q", "R", "S", "T", "U", "V", "W", "X", "Y", "Z">>

LowerChars == <<"a", "b", "c", "d", "e", "f", "g", "h", "i", "j", "k", "l", "m",
                "n", "o", "p", "q", "r", "s", "t", "u", "v", "w", "x", "y", "z">>

LowerOf ==
    [c \in {UpperChars[i] : i \in 1..Len(UpperChars)} |->
        LowerChars[CHOOSE i \in 1..Len(UpperChars) : UpperChars[i] = c]]

toLowerCaseChar(c) == IF c \in DOMAIN LowerOf THEN LowerOf[c] ELSE c

toLowerCase(s) == [i \in 1..Len(s) |-> toLowerCaseChar(s[i])]

includes(s, sub) ==
    \E i \in 0..(Len(s) - Len(sub)) : SubSeq(s, i + 1, i + Len(sub)) = sub

\* 'unauthorized', the substring isAuthError looks for
Needle == <<
    "u", "n", "a", "u", "t", "h", "o", "r", "i", "z", "e", "d" >>

\* 'Authentication error. Please sign in again.'
AuthenticationMessage == <<
    "A", "u", "t", "h", "e", "n", "t", "i", "c", "a", "t", "i", "o", "n",
    " ", "e", "r", "r", "o", "r", ".", " ", "P", "l", "e", "a", "s", "e",
    " ", "s", "i", "g", "n", " ", "i", "n", " ", "a", "g", "a", "i", "n",
    "." >>

\* 'A temporary error occurred. Please try again.'
TemporaryMessage == <<
    "A", " ", "t", "e", "m", "p", "o", "r", "a", "r", "y", " ", "e", "r",
    "r", "o", "r", " ", "o", "c", "c", "u", "r", "r", "e", "d", ".", " ",
    "P", "l", "e", "a", "s", "e", " ", "t", "r", "y", " ", "a", "g", "a",
    "i", "n", "." >>

\* 'An unexpected error occurred.'
UnexpectedMessage == <<
    "A", "n", " ", "u", "n", "e", "x", "p", "e", "c", "t", "e", "d", " ",
    "e", "r", "r", "o", "r", " ", "o", "c", "c", "u", "r", "r", "e", "d",
    "." >>

\* 'Circuit breaker is open. Service temporarily unavailable.'
CircuitOpenMessage == <<
    "C", "i", "r", "c", "u", "i", "t", " ", "b", "r", "e", "a", "k", "e",
    "r", " ", "i", "s", " ", "o", "p", "e", "n", ".", " ", "S", "e", "r",
    "v", "i", "c", "e", " ", "t", "e", "m", "p", "o", "r", "a", "r", "i",
    "l", "y", " ", "u", "n", "a", "v", "a", "i", "l", "a", "b", "l", "e",
    "." >>

\* input message 'Bad input'
MsgBadInput == <<
    "B", "a", "d", " ", "i", "n", "p", "u", "t" >>

\* input message 'User is UnAuthorized'
MsgUnauthorizedMixed == <<
    "U", "s", "e", "r", " ", "i", "s", " ", "U", "n", "A", "u", "t", "h",
    "o", "r", "i", "z", "e", "d" >>

\* 'Unauthorised request'
MsgUnauthorised == <<
    "U", "n", "a", "u", "t", "h", "o", "r", "i", "s", "e", "d", " ",
    "r", "e", "q", "u", "e", "s", "t" >>

(***************************************************************************)
(* Error classification                                                    *)
(***************************************************************************)
retryableCodes ==
    {"ProvisionedThroughputExceededException", "ThrottlingException",
     "RequestLimitExceeded", "ServiceUnavailable", "RequestTimeout",
     "RequestTimeoutException", "NetworkingError"}

retryableStatusCodes == {429, 500, 502, 503, 504}

authErrorCodes ==
    {"UnauthorizedException", "AccessDeniedException", "TokenRefreshRequired",
     "InvalidUserPoolConfigurationException", "NotAuthorizedException",
     "UserNotFoundException", "PasswordResetRequiredException",
     "UserNotConfirmedException"}

authStatusCodes == {401, 403}

\* The raw errors an operation may reject with: retryable is the flag
\* error.retryable === true, metaStatus is error.$metadata.httpStatusCode.
ErrorCodes == {"", "ThrottlingException", "UnauthorizedException", "ValidationException"}

ErrorStatusCodes == {0, 401, 503}

ErrorMetaStatusCodes == {0, 403}

ErrorMessages == {<<>>, MsgBadInput, MsgUnauthorizedMixed}

RawErrors ==
    [defined : {TRUE}, retryable : BOOLEAN, code : ErrorCodes,
     statusCode : ErrorStatusCodes, metaStatus : ErrorMetaStatusCodes,
     message : ErrorMessages]

\* lastError before any attempt has failed (undefined)
NoError ==
    [defined |-> FALSE, retryable |-> FALSE, code |-> "", statusCode |-> 0,
     metaStatus |-> 0, message |-> <<>>]

\* The truthiness of the value isRetryableError returns.
isRetryableError(error) ==
    \/ error.retryable
    \/ (error.code # "" /\ error.code \in retryableCodes)
    \/ (error.statusCode # 0 /\ error.statusCode \in retryableStatusCodes)
    \/ (error.metaStatus # 0 /\ error.metaStatus \in retryableStatusCodes)

isAuthErrorCaseSensitive(error) ==
    \/ (error.code # "" /\ error.code \in authErrorCodes)
    \/ (error.statusCode # 0 /\ error.statusCode \in authStatusCodes)
    \/ (error.metaStatus # 0 /\ error.metaStatus \in authStatusCodes)
    \/ (error.message # <<>> /\ includes(error.message, Needle))

\* The truthiness of the value isAuthError returns.
isAuthError(error) ==
    \/ (error.code # "" /\ error.code \in authErrorCodes)
    \/ (error.statusCode # 0 /\ error.statusCode \in authStatusCodes)
    \/ (error.metaStatus # 0 /\ error.metaStatus \in authStatusCodes)
    \/ (error.message # <<>> /\ includes(toLowerCase(error.message), Needle))

\* new AWSError(details): retryable is details.retryable || false
AWSError(code, message, statusCode, retryable) ==
    [type |-> "AWSError", code |-> code, message |-> message,
     statusCode |-> statusCode, retryable |-> retryable]

\* error.statusCode || error.$metadata?.httpStatusCode
StatusOf(error) == IF error.statusCode # 0 THEN error.statusCode ELSE error.metaStatus

handleAWSErrorNeverRetryable(error) ==
    AWSError(error.code,
             IF isAuthError(error) THEN AuthenticationMessage
             ELSE IF error.message # <<>> THEN error.message
             ELSE IF isRetryableError(error) THEN TemporaryMessage
             ELSE UnexpectedMessage,
             StatusOf(error), FALSE)

\* The value handleAWSError throws for a defined error (it never returns).
handleAWSError(error) ==
    IF isAuthError(error)
    THEN AWSError(error.code, AuthenticationMessage, StatusOf(error), FALSE)
    ELSE IF isRetryableError(error)
    THEN AWSError(error.code,
                  IF error.message # <<>> THEN error.message ELSE TemporaryMessage,
                  StatusOf(error), TRUE)
    ELSE AWSError(error.code,
                  IF error.message # <<>> THEN error.message ELSE UnexpectedMessage,
                  StatusOf(error), FALSE)

\* The raw errors given to the classifiers alone: every code of both lists
\* and one of neither, every status of both lists and two of neither in
\* either field, and messages with and without the word.
ClassifyCodes == {"", "ValidationException"} \cup retryableCodes \cup authErrorCodes

ClassifyStatusCodes == {0, 400, 404} \cup retryableStatusCodes \cup authStatusCodes

ClassifyMessages == {<<>>, MsgBadInput, MsgUnauthorizedMixed, MsgUnauthorised}

ClassifyErrors ==
    [defined : {TRUE}, retryable : BOOLEAN, code : ClassifyCodes,
     statusCode : ClassifyStatusCodes, metaStatus : ClassifyStatusCodes,
     message : ClassifyMessages]

\* A raw error no classifier has been applied to yet.
Unclassified(error) ==
    [error |-> error, done |-> FALSE, isRetryableError |-> FALSE,
     isAuthError |-> FALSE, signOut |-> "none",
     thrown |-> [type |-> "none", code |-> "", message |-> <<>>,
                 statusCode |-> 0, retryable |-> FALSE]]

NoClassification == Unclassified(NoError)

\* handleAWSError(undefined): reading error.code throws a TypeError
TypeError ==
    [type |-> "TypeError", code |-> "", message |-> <<>>, statusCode |-> 0,
     retryable |-> FALSE]

NoResult ==
    [type |-> "none", code |-> "", message |-> <<>>, statusCode |-> 0,
     retryable |-> FALSE]

OkResult ==
    [type |-> "ok", code |-> "", message |-> <<>>, statusCode |-> 0,
     retryable |-> FALSE]

\* How one attempt ended, as recorded in the history of a withRetry run.
Outcome(error) ==
    IF isAuthError(error)
    THEN (IF isRetryableError(error) THEN "both" ELSE "auth")
    ELSE (IF isRetryableError(error) THEN "retryable" ELSE "fatal")

(***************************************************************************)
(* State                                                                   *)
(***************************************************************************)
VARIABLES
    retryConfig,     \* withRetry: the merged RetryConfig of the run
    rPc,             \* withRetry: "loop", "awaitOp", "sleeping", "done"
    attempt,         \* withRetry: loop variable
    delay,           \* withRetry: current delay
    lastError,       \* withRetry: lastError
    invocations,     \* number of times operation() was called
    sleeps,          \* the delays slept, in order
    signOuts,        \* number of signOut() calls made by handleAWSError
    rResult,         \* what withRetry returned or threw
    history,         \* outcome of each finished attempt, in order
    classified,      \* the raw error last classified and what the classifiers said
    backoff,         \* the last call of a createExponentialBackoff function
    credentialCache, \* aws-config: credentialCache
    getCred,         \* aws-config: the running getAwsCredentials() calls
    issued,          \* number of credentials the identity provider issued
    invalidated,     \* clearCredentialCache() ran and no getAwsCredentials() since
    refreshInterval, \* aws-config: refreshInterval (NoTimer is null)
    timers,          \* the intervals that are set
    timersCreated,   \* number of setInterval() calls made
    cbConfig,        \* CircuitBreaker: config
    cb,              \* CircuitBreaker: state, failures, lastFailureTime, halfOpenAttempts
    cbCalls,         \* CircuitBreaker: the execute() calls awaiting operation()
    cbLast,          \* the last thing that happened to the breaker
    consecutiveFailures, \* operation failures seen since the last success
    upInput,         \* uploadDocument: the file, the callback, the bucket setting
    upPc,            \* uploadDocument / multipartUpload: position of the main flow
    uploadId,        \* multipartUpload: uploadId (0 is undefined)
    parts,           \* multipartUpload: the part closures, by partNumber
    uploadedBytes,   \* multipartUpload: uploadedBytes
    progress,        \* the reports delivered to onProgress, in order
    s3Calls,         \* number of commands sent to the store, by kind
    completeParts,   \* the Parts list of the CompleteMultipartUpload command
    objectCompleted, \* the store completed the object
    upResult,        \* what uploadDocument returned or threw
    partCommands,    \* the UploadPartCommands sent: PartNumber and Body range
    upUserId,        \* uploadDocument / multipartUpload: userId
    upKey,           \* uploadDocument / multipartUpload: key
    sentKeys,        \* the Key and UploadId of the commands sent, by kind
    rejections,      \* the rejected sends of multipartUpload and their errors
    cancelled,       \* the caller has given the upload up while it runs
    keyInput,        \* operation on a key: which operation, which key
    keyCall,         \* operation on a key: position, user id, outcome
    keyCalls,        \* operation on a key: calls made, by callee
    now              \* Date.now(), in units of five minutes

retryVars ==
    <<retryConfig, rPc, attempt, delay, lastError, invocations, sleeps,
      signOuts, rResult, history, classified, backoff>>

timerVars == <<refreshInterval, timers, timersCreated>>

credVars == <<credentialCache, getCred, issued, invalidated, timerVars>>

cbVars == <<cbConfig, cb, cbCalls, cbLast, consecutiveFailures>>

upVars ==
    <<upInput, upPc, uploadId, parts, uploadedBytes, progress, s3Calls,
      completeParts, objectCompleted, upResult, partCommands, upUserId, upKey,
      sentKeys, rejections, cancelled>>

keyVars == <<keyInput, keyCall, keyCalls>>

vars == <<retryVars, credVars, cbVars, upVars, keyVars, now>>

(***************************************************************************)
(* withRetry                                                               *)
(***************************************************************************)
defaultRetryConfig ==
    [maxAttempts |-> 3, initialDelay |-> 100, maxDelay |-> 5000,
     backoffMultiplier |-> 2]

RetryConfigs ==
    [maxAttempts : 0..MaxAttemptsBound, initialDelay : 1..MaxInitialDelay,
     maxDelay : 1..MaxDelayBound, backoffMultiplier : 1..MaxMultiplier]
        \cup {defaultRetryConfig}

EmptyCache == [credentials |-> 0, expiration |-> 0]

\* No backoff function has been called yet.
NoBackoff == [called |-> FALSE, attempt |-> 0, random |-> 0, jitter |-> 0, delay |-> 0]

InitRetryOf(configs, errors) ==
    /\ retryConfig \in configs
    /\ rPc = "loop"
    /\ attempt = 1
    /\ delay = retryConfig.initialDelay
    /\ lastError = NoError
    /\ invocations = 0
    /\ sleeps = <<>>
    /\ signOuts = 0
    /\ rResult = NoResult
    /\ history = <<>>
    /\ classified \in {Unclassified(error) : error \in errors}
    /\ backoff = NoBackoff

InitRetryWith(configs) == InitRetryOf(configs, {NoError})

InitRetry == InitRetryWith(RetryConfigs)

\* The catch block's test: surface the error through handleAWSError now?
ShouldSurfaceUnclassified(att, maxAttempts, error) == att = maxAttempts

ShouldSurfaceEarly(att, maxAttempts, error) ==
    att + 1 >= maxAttempts \/ ~isRetryableError(error)

ShouldSurface(att, maxAttempts, error) ==
    att = maxAttempts \/ ~isRetryableError(error)

\* for (...; attempt <= maxAttempts; ...) { try { return await operation()
RetryInvoke ==
    /\ rPc = "loop"
    /\ attempt <= retryConfig.maxAttempts
    /\ invocations' = invocations + 1
    /\ rPc' = "awaitOp"
    /\ UNCHANGED <<retryConfig, backoff, classified, attempt, delay, lastError, sleeps,
                   signOuts, rResult, history, credVars, cbVars, upVars, now,
                   keyVars>>

\* The loop ends without a return: await handleAWSError(lastError), which
\* throws (a TypeError when no attempt was made and lastError is undefined).
RetryLoopExit ==
    /\ rPc = "loop"
    /\ attempt > retryConfig.maxAttempts
    /\ rResult' = IF lastError.defined THEN handleAWSError(lastError) ELSE TypeError
    /\ signOuts' = IF lastError.defined /\ isAuthError(lastError)
                   THEN signOuts + 1 ELSE signOuts
    /\ rPc' = "done"
    /\ UNCHANGED <<retryConfig, backoff, classified, attempt, delay, lastError,
                   invocations, sleeps, history, credVars, cbVars, upVars, now,
                   keyVars>>

\* operation() resolves: withRetry returns its value.
RetryOpResolve ==
    /\ rPc = "awaitOp"
    /\ rResult' = OkResult
    /\ history' = Append(history, "ok")
    /\ rPc' = "done"
    /\ UNCHANGED <<retryConfig, backoff, classified, attempt, delay, lastError,
                   invocations, sleeps, signOuts, credVars, cbVars, upVars,
                   now, keyVars>>

\* The catch block of withRetry up to the sleep.  In handleAWSError the
\* outcome of signOut() is ignored (its failure is only logged), so the
\* step is the same whether signOut resolves or rejects.
Caught(error) ==
    /\ lastError' = error
    /\ history' = Append(history, Outcome(error))
    /\ IF ShouldSurface(attempt, retryConfig.maxAttempts, error)
       THEN /\ rResult' = handleAWSError(error)
            /\ signOuts' = IF isAuthError(error) THEN signOuts + 1 ELSE signOuts
            /\ rPc' = "done"
            /\ UNCHANGED sleeps
       ELSE /\ sleeps' = Append(sleeps, delay)
            /\ rPc' = "sleeping"
            /\ UNCHANGED <<rResult, signOuts>>

\* operation() rejects with error.
RetryOpReject(error) ==
    /\ rPc = "awaitOp"
    /\ Caught(error)
    /\ UNCHANGED <<retryConfig, backoff, classified, attempt, delay, invocations,
                   credVars, cbVars, upVars, now, keyVars>>

\* The timer fires: delay = Math.min(delay * backoffMultiplier, maxDelay),
\* then attempt++.
RetrySleepDone ==
    /\ rPc = "sleeping"
    /\ delay' = Min(delay * retryConfig.backoffMultiplier, retryConfig.maxDelay)
    /\ attempt' = attempt + 1
    /\ rPc' = "loop"
    /\ UNCHANGED <<retryConfig, backoff, classified, lastError, invocations, sleeps,
                   signOuts, rResult, history, credVars, cbVars, upVars, now,
                   keyVars>>

\* isRetryableError(error), isAuthError(error) and handleAWSError(error)
\* applied to one raw error (an object: the classifiers read its fields).
Classify ==
    /\ ~classified.done
    /\ classified.error.defined
    /\ classified' = [error |-> classified.error, done |-> TRUE,
                      isRetryableError |-> isRetryableError(classified.error),
                      isAuthError |-> isAuthError(classified.error),
                      signOut |-> "none",
                      thrown |-> handleAWSError(classified.error)]
    /\ UNCHANGED <<retryConfig, backoff, rPc, attempt, delay, lastError,
                   invocations,
                   sleeps, signOuts, rResult, history, credVars, cbVars, upVars,
                   now, keyVars>>

\* What handleAWSError throws once signOut() has settled: the catch around
\* signOut only logs, so the rejection never replaces the AWSError.
SignOutError ==
    [type |-> "SignOutError", code |-> "", message |-> <<>>, statusCode |-> 0,
     retryable |-> FALSE]

ThrownAfterSignOutSurfaces(error, rejected) ==
    IF rejected THEN SignOutError ELSE handleAWSError(error)

ThrownAfterSignOut(error, rejected) == handleAWSError(error)

\* handleAWSError(error) is called with a raw error: an auth failure awaits
\* signOut(), anything else is thrown at once.
HandleAWSError ==
    /\ ~classified.done
    /\ classified.signOut = "none"
    /\ classified.error.defined
    /\ IF isAuthError(classified.error)
       THEN /\ classified' = [classified EXCEPT !.signOut = "pending",
                                                !.isAuthError = TRUE]
            /\ signOuts' = signOuts + 1
       ELSE /\ classified' =
                   [classified EXCEPT
                       !.done = TRUE,
                       !.isRetryableError = isRetryableError(classified.error),
                       !.thrown = handleAWSError(classified.error)]
            /\ UNCHANGED signOuts
    /\ UNCHANGED <<retryConfig, backoff, rPc, attempt, delay, lastError,
                   invocations,
                   sleeps, rResult, history, credVars, cbVars, upVars, now,
                   keyVars>>

\* signOut() resolves and handleAWSError throws.
SignOutResolve ==
    /\ classified.signOut = "pending"
    /\ classified' =
           [classified EXCEPT
               !.done = TRUE,
               !.signOut = "resolved",
               !.thrown = ThrownAfterSignOut(classified.error, FALSE)]
    /\ UNCHANGED <<retryConfig, backoff, rPc, attempt, delay, lastError,
                   invocations,
                   sleeps, signOuts, rResult, history, credVars, cbVars, upVars,
                   now, keyVars>>

\* signOut() rejects: the rejection is logged and handleAWSError throws.
SignOutReject ==
    /\ classified.signOut = "pending"
    /\ classified' =
           [classified EXCEPT
               !.done = TRUE,
               !.signOut = "rejected",
               !.thrown = ThrownAfterSignOut(classified.error, TRUE)]
    /\ UNCHANGED <<retryConfig, backoff, rPc, attempt, delay, lastError,
                   invocations,
                   sleeps, signOuts, rResult, history, credVars, cbVars, upVars,
                   now, keyVars>>

(***************************************************************************)
(* createExponentialBackoff.  Math.random() is r / RandomSteps for an r in *)
(* 0..RandomSteps-1, and delays are counted in BackoffScale-ths of the     *)
(* configuration's unit so that a tenth of a delay times a draw is exact.  *)
(***************************************************************************)
BackoffScale == 10 * RandomSteps

RECURSIVE Pow(_, _)
Pow(base, exponent) ==
    IF exponent = 0 THEN 1 ELSE base * Pow(base, exponent - 1)

\* initialDelay * Math.pow(backoffMultiplier, attempt - 1)
UnjitteredDelay(config, att) ==
    config.initialDelay * Pow(config.backoffMultiplier, att - 1) * BackoffScale

\* delay * 0.1 * Math.random()
Jitter(config, att, r) ==
    config.initialDelay * Pow(config.backoffMultiplier, att - 1) * r

exponentialBackoffCapsFirst(config, att, r) ==
    Min(UnjitteredDelay(config, att), config.maxDelay * BackoffScale)
        + Jitter(config, att, r)

\* Math.min(delay + jitter, maxDelay)
exponentialBackoff(config, att, r) ==
    Min(UnjitteredDelay(config, att) + Jitter(config, att, r),
        config.maxDelay * BackoffScale)

\* The configurations of the two tests, the default one, and ones whose
\* maxDelay lies within a tenth above a delay the function computes.
BackoffConfigs ==
    [maxAttempts : {3}, initialDelay : {10, 20}, maxDelay : {21, 42, 300},
     backoffMultiplier : 1..MaxMultiplier]
        \cup {defaultRetryConfig,
              [maxAttempts |-> 3, initialDelay |-> 100, maxDelay |-> 1000,
               backoffMultiplier |-> 2],
              [maxAttempts |-> 3, initialDelay |-> 100, maxDelay |-> 500,
               backoffMultiplier |-> 10]}

\* backoff(attempt), Math.random() returning r / RandomSteps.
Backoff(att, r) ==
    /\ backoff' = [called |-> TRUE, attempt |-> att, random |-> r,
                   jitter |-> Jitter(retryConfig, att, r),
                   delay |-> exponentialBackoff(retryConfig, att, r)]
    /\ UNCHANGED <<retryConfig, classified, rPc, attempt, delay, lastError,
                   invocations, sleeps, signOuts, rResult, history, credVars,
                   cbVars, upVars, now, keyVars>>

NextBackoff ==
    \E att \in 1..MaxBackoffAttempt : \E r \in 0..(RandomSteps - 1) :
        Backoff(att, r)

NextHandle ==
    \/ HandleAWSError
    \/ SignOutResolve
    \/ SignOutReject

NextRetry ==
    \/ RetryInvoke
    \/ RetryLoopExit
    \/ RetryOpResolve
    \/ \E error \in RawErrors : RetryOpReject(error)
    \/ RetrySleepDone

(***************************************************************************)
(* Credential cache (aws-config).  Time is counted in units of five        *)
(* minutes: 5 * 60 * 1000 ms is 1, 15 * 60 * 1000 ms is 3 and              *)
(* 3600 * 1000 ms is 12.                                                   *)
(***************************************************************************)
FiveMinutes == 1

TenMinutes == 2

FifteenMinutes == 3

OneHour == 12

Callers == 1..NumCallers

\* The callback of the refresh timer calls getAwsCredentials() as well; one
\* callback of the timer is followed at a time.
Timer == 0

CredCallers == Callers \cup {Timer}

NoCredentials == 0

\* let refreshInterval: NodeJS.Timeout | null = null
NoTimer == 0

\* The handles setInterval() returns.
TimerIds == 1..MaxTimers

\* session.credentials.expiration relative to the time the session arrives;
\* -1 stands for a session without an expiration.
ExpirationOffsets == {-1, 0, 1, 2, 4}

\* intervalMs of startCredentialRefresh; 0 is an interval below one unit
\* of time.
Intervals == 0..MaxInterval

CredentialsUnavailable == "Failed to get AWS credentials. Please sign in again."

\* A getAwsCredentials() call: now is its local constant, which is read
\* only while the call awaits fetchAuthSession() and is 0 otherwise.
IdleCall == [pc |-> "idle", now |-> 0, result |-> "none", credentials |-> NoCredentials]

InitCred ==
    /\ credentialCache = EmptyCache
    /\ getCred = [c \in CredCallers |-> IdleCall]
    /\ issued = 0
    /\ invalidated = FALSE
    /\ refreshInterval = NoTimer
    /\ timers = {}
    /\ timersCreated = 0

CacheIsFreshNoMargin(cache, t) ==
    cache.credentials # NoCredentials /\ cache.expiration > t

\* credentialCache.credentials && credentialCache.expiration > now + 5 * 60 * 1000
CacheIsFresh(cache, t) ==
    cache.credentials # NoCredentials /\ cache.expiration > t + FiveMinutes

\* getAwsCredentials() up to its first await: the cached credentials are
\* returned, or fetchAuthSession() is called.
GetCredentials(c) ==
    /\ getCred[c].pc # "fetching"
    /\ IF CacheIsFresh(credentialCache, now)
       THEN getCred' = [getCred EXCEPT ![c] =
                [pc |-> "returned", now |-> 0, result |-> "cached",
                 credentials |-> credentialCache.credentials]]
       ELSE getCred' = [getCred EXCEPT ![c] =
                [pc |-> "fetching", now |-> now, result |-> "none",
                 credentials |-> NoCredentials]]
    /\ invalidated' = FALSE

GetCredentialsCall(c) ==
    /\ GetCredentials(c)
    /\ UNCHANGED <<credentialCache, issued, timerVars, retryVars, cbVars,
                   upVars, now, keyVars>>

\* fetchAuthSession() resolves with credentials: the cache is replaced and
\* the new credentials are returned.
FetchResolve(c, offset) ==
    /\ getCred[c].pc = "fetching"
    /\ issued < MaxIssued
    /\ issued' = issued + 1
    /\ credentialCache' =
           [credentials |-> issued + 1,
            expiration |-> IF offset >= 0 THEN now + offset
                           ELSE getCred[c].now + OneHour]
    /\ getCred' = [getCred EXCEPT ![c] =
           [pc |-> "returned", now |-> 0, result |-> "fetched",
            credentials |-> issued + 1]]
    /\ UNCHANGED <<invalidated, timerVars, retryVars, cbVars, upVars, now, keyVars>>

FetchFailClearsCache(c) ==
    /\ getCred[c].pc = "fetching"
    /\ getCred' = [getCred EXCEPT ![c] =
           [pc |-> "threw", now |-> 0,
            result |-> CredentialsUnavailable, credentials |-> NoCredentials]]
    /\ credentialCache' = EmptyCache
    /\ UNCHANGED <<issued, invalidated, timerVars, retryVars, cbVars, upVars,
                   now, keyVars>>

\* fetchAuthSession() rejects, or resolves with a session without
\* credentials: either way the catch block throws the same new Error.
FetchFail(c) ==
    /\ getCred[c].pc = "fetching"
    /\ getCred' = [getCred EXCEPT ![c] =
           [pc |-> "threw", now |-> 0,
            result |-> CredentialsUnavailable, credentials |-> NoCredentials]]
    /\ UNCHANGED <<credentialCache, issued, invalidated, timerVars, retryVars,
                   cbVars, upVars, now, keyVars>>

clearCredentialCache ==
    /\ credentialCache' = EmptyCache
    /\ invalidated' = TRUE
    /\ UNCHANGED <<getCred, issued, timerVars, retryVars, cbVars, upVars, now, keyVars>>

Tick ==
    /\ now < MaxTime
    /\ now' = now + 1
    /\ UNCHANGED <<retryVars, credVars, cbVars, upVars, keyVars>>

NextCred ==
    \/ \E c \in Callers : GetCredentialsCall(c)
    \/ \E c \in Callers, offset \in ExpirationOffsets : FetchResolve(c, offset)
    \/ \E c \in Callers : FetchFail(c)
    \/ clearCredentialCache
    \/ Tick

(***************************************************************************)
(* Credential refresh timer (aws-config).  timers is the set of intervals  *)
(* that setInterval created and clearInterval has not cleared.             *)
(***************************************************************************)
ClearInterval(id) == {t \in timers : t.id # id}

startCredentialRefreshKeepsOld(intervalMs) ==
    /\ timersCreated < MaxTimers
    /\ timersCreated' = timersCreated + 1
    /\ refreshInterval' = timersCreated + 1
    /\ timers' =
           timers
           \cup {[id |-> timersCreated + 1, interval |-> intervalMs,
                  due |-> now + intervalMs]}
    /\ UNCHANGED <<credentialCache, getCred, issued, invalidated, retryVars,
                   cbVars, upVars, now, keyVars>>

\* if (refreshInterval) clearInterval(refreshInterval); refreshInterval =
\* setInterval(callback, intervalMs)
startCredentialRefresh(intervalMs) ==
    /\ timersCreated < MaxTimers
    /\ timersCreated' = timersCreated + 1
    /\ refreshInterval' = timersCreated + 1
    /\ timers' =
           (IF refreshInterval # NoTimer THEN ClearInterval(refreshInterval)
            ELSE timers)
           \cup {[id |-> timersCreated + 1, interval |-> intervalMs,
                  due |-> now + intervalMs]}
    /\ UNCHANGED <<credentialCache, getCred, issued, invalidated, retryVars,
                   cbVars, upVars, now, keyVars>>

stopCredentialRefresh ==
    /\ IF refreshInterval # NoTimer
       THEN /\ timers' = ClearInterval(refreshInterval)
            /\ refreshInterval' = NoTimer
       ELSE UNCHANGED <<timers, refreshInterval>>
    /\ UNCHANGED <<credentialCache, getCred, issued, invalidated,
                   timersCreated, retryVars, cbVars, upVars, now, keyVars>>

\* credentialCache.expiration - now < 15 * 60 * 1000
NeedsRefresh(cache, t) == cache.expiration - t < FifteenMinutes

\* The callback of an interval runs: up to the first await of the
\* getAwsCredentials() call it makes, or to its end when it makes none.
RefreshTick(id) ==
    /\ \E t \in timers :
           /\ t.id = id
           /\ now >= t.due
           /\ timers' = (timers \ {t}) \cup {[t EXCEPT !.due = now + t.interval]}
    /\ getCred[Timer].pc # "fetching"
    /\ IF NeedsRefresh(credentialCache, now)
       THEN GetCredentials(Timer)
       ELSE /\ getCred' = [getCred EXCEPT ![Timer] =
                    [pc |-> "skipped", now |-> 0, result |-> "none",
                     credentials |-> NoCredentials]]
            /\ UNCHANGED invalidated
    /\ UNCHANGED <<credentialCache, issued, refreshInterval, timersCreated,
                   retryVars, cbVars, upVars, now, keyVars>>

NextRefresh ==
    \/ \E intervalMs \in Intervals : startCredentialRefresh(intervalMs)
    \/ stopCredentialRefresh
    \/ \E id \in TimerIds : RefreshTick(id)
    \/ \E offset \in ExpirationOffsets : FetchResolve(Timer, offset)
    \/ FetchFail(Timer)

(***************************************************************************)
(* CircuitBreaker                                                          *)
(***************************************************************************)
\* The constructor's default config.
defaultBreakerConfig ==
    [failureThreshold |-> 5, resetTimeout |-> 60000, halfOpenRequests |-> 3]

CircuitBreakerConfigs ==
    [failureThreshold : 1..MaxThreshold, resetTimeout : 1..MaxResetTimeout,
     halfOpenRequests : 1..MaxHalfOpenRequests]

\* private failures = 0; lastFailureTime = 0; state = 'closed'; halfOpenAttempts = 0
NewBreaker ==
    [state |-> "closed", failures |-> 0, lastFailureTime |-> 0,
     halfOpenAttempts |-> 0]

\* The error execute() throws while the breaker is open.
CircuitOpenError == AWSError("", CircuitOpenMessage, 0, TRUE)

\* The error a failing operation() rejects with (new Error('fail')).
OperationError ==
    [type |-> "Error", code |-> "", message |-> <<>>, statusCode |-> 0,
     retryable |-> FALSE]

\* kind: what happened; caller: to which execute() call; from: the state
\* of the breaker before it; error: what execute() threw; seq flips at
\* every event.
NoEvent ==
    [kind |-> "none", caller |-> 0, from |-> "closed", error |-> NoResult,
     seq |-> 0]

Event(kind, c, from, error) ==
    [kind |-> kind, caller |-> c, from |-> from, error |-> error,
     seq |-> 1 - cbLast.seq]

InitBreakerWith(configs) ==
    /\ cbConfig \in configs
    /\ cb = NewBreaker
    /\ cbCalls = [c \in Callers |-> "idle"]
    /\ cbLast = NoEvent
    /\ consecutiveFailures = 0

InitBreaker == InitBreakerWith(CircuitBreakerConfigs)

TimeoutElapsedInclusive(b, cfg, t) == t - b.lastFailureTime >= cfg.resetTimeout

\* timeSinceLastFailure > this.config.resetTimeout
TimeoutElapsed(b, cfg, t) == t - b.lastFailureTime > cfg.resetTimeout

AdmitKeepsAttempts(b, cfg, t) ==
    IF b.state = "open"
    THEN IF TimeoutElapsed(b, cfg, t)
         THEN [admitted |-> TRUE, breaker |-> [b EXCEPT !.state = "half-open"]]
         ELSE [admitted |-> FALSE, breaker |-> b]
    ELSE [admitted |-> TRUE, breaker |-> b]

AdmitResetsFailures(b, cfg, t) ==
    IF b.state = "open"
    THEN IF TimeoutElapsed(b, cfg, t)
         THEN [admitted |-> TRUE,
               breaker |-> [b EXCEPT !.state = "half-open", !.halfOpenAttempts = 0,
                                     !.failures = 0]]
         ELSE [admitted |-> FALSE, breaker |-> b]
    ELSE [admitted |-> TRUE, breaker |-> b]

AdmitAlways(b, cfg, t) == [admitted |-> TRUE, breaker |-> b]

\* The first block of execute(): whether operation() is called, and the
\* breaker as that block leaves it.
Admit(b, cfg, t) ==
    IF b.state = "open"
    THEN IF TimeoutElapsed(b, cfg, t)
         THEN [admitted |-> TRUE,
               breaker |-> [b EXCEPT !.state = "half-open", !.halfOpenAttempts = 0]]
         ELSE [admitted |-> FALSE, breaker |-> b]
    ELSE [admitted |-> TRUE, breaker |-> b]

OnSuccessStrict(b, cfg) ==
    IF b.state = "half-open"
    THEN IF b.halfOpenAttempts + 1 > cfg.halfOpenRequests
         THEN [b EXCEPT !.halfOpenAttempts = b.halfOpenAttempts + 1,
                        !.state = "closed", !.failures = 0]
         ELSE [b EXCEPT !.halfOpenAttempts = b.halfOpenAttempts + 1]
    ELSE IF b.state = "closed"
    THEN [b EXCEPT !.failures = 0]
    ELSE b

OnSuccessIgnoresProbes(b, cfg) ==
    IF b.state = "closed" THEN [b EXCEPT !.failures = 0] ELSE b

OnSuccessKeepsFailures(b, cfg) ==
    IF b.state = "half-open"
    THEN IF b.halfOpenAttempts + 1 >= cfg.halfOpenRequests
         THEN [b EXCEPT !.halfOpenAttempts = b.halfOpenAttempts + 1,
                        !.state = "closed"]
         ELSE [b EXCEPT !.halfOpenAttempts = b.halfOpenAttempts + 1]
    ELSE b

\* The breaker after operation() resolved.
OnSuccess(b, cfg) ==
    IF b.state = "half-open"
    THEN IF b.halfOpenAttempts + 1 >= cfg.halfOpenRequests
         THEN [b EXCEPT !.halfOpenAttempts = b.halfOpenAttempts + 1,
                        !.state = "closed", !.failures = 0]
         ELSE [b EXCEPT !.halfOpenAttempts = b.halfOpenAttempts + 1]
    ELSE IF b.state = "closed"
    THEN [b EXCEPT !.failures = 0]
    ELSE b

OnFailureStrict(b, cfg, t) ==
    IF b.failures + 1 > cfg.failureThreshold
    THEN [b EXCEPT !.failures = b.failures + 1, !.lastFailureTime = t,
                   !.state = "open"]
    ELSE [b EXCEPT !.failures = b.failures + 1, !.lastFailureTime = t]

\* The breaker after operation() rejected.
OnFailure(b, cfg, t) ==
    IF b.failures + 1 >= cfg.failureThreshold
    THEN [b EXCEPT !.failures = b.failures + 1, !.lastFailureTime = t,
                   !.state = "open"]
    ELSE [b EXCEPT !.failures = b.failures + 1, !.lastFailureTime = t]

ResetBreakerKeepsState(b) == [b EXCEPT !.failures = 0, !.halfOpenAttempts = 0]

\* reset()
ResetBreaker(b) ==
    [b EXCEPT !.state = "closed", !.failures = 0, !.halfOpenAttempts = 0]

\* execute() up to its await: rejected with the circuit-open error, or
\* operation() is called.
Execute(c) ==
    /\ cbCalls[c] = "idle"
    /\ LET a == Admit(cb, cbConfig, now) IN
         /\ cb' = a.breaker
         /\ IF a.admitted
            THEN /\ cbCalls' = [cbCalls EXCEPT ![c] = "inflight"]
                 /\ cbLast' = Event("started", c, cb.state, NoResult)
            ELSE /\ UNCHANGED cbCalls
                 /\ cbLast' = Event("rejected", c, cb.state, CircuitOpenError)
    /\ UNCHANGED <<cbConfig, consecutiveFailures, retryVars, credVars, upVars, now, keyVars>>

\* operation() resolves: execute() returns its result.
ExecuteResolve(c) ==
    /\ cbCalls[c] = "inflight"
    /\ cb' = OnSuccess(cb, cbConfig)
    /\ cbCalls' = [cbCalls EXCEPT ![c] = "idle"]
    /\ cbLast' = Event("succeeded", c, cb.state, NoResult)
    /\ consecutiveFailures' = 0
    /\ UNCHANGED <<cbConfig, retryVars, credVars, upVars, now, keyVars>>

\* operation() rejects: execute() rethrows the error.
ExecuteReject(c) ==
    /\ cbCalls[c] = "inflight"
    /\ cb.failures < MaxFailures
    /\ cb' = OnFailure(cb, cbConfig, now)
    /\ cbCalls' = [cbCalls EXCEPT ![c] = "idle"]
    /\ cbLast' = Event("failed", c, cb.state, OperationError)
    /\ consecutiveFailures' = consecutiveFailures + 1
    /\ UNCHANGED <<cbConfig, retryVars, credVars, upVars, now, keyVars>>

reset ==
    /\ cb' = ResetBreaker(cb)
    /\ cbLast' = Event("reset", 0, cb.state, NoResult)
    /\ consecutiveFailures' = 0
    /\ UNCHANGED <<cbConfig, cbCalls, retryVars, credVars, upVars, now, keyVars>>

NextBreaker ==
    \/ \E c \in Callers : Execute(c)
    \/ \E c \in Callers : ExecuteResolve(c)
    \/ \E c \in Callers : ExecuteReject(c)
    \/ reset
    \/ Tick

(***************************************************************************)
(* Object keys (s3-service).  Keys, user ids and file names are sequences  *)
(* of characters, so that startsWith and the replace of the file name are  *)
(* computed.                                                               *)
(***************************************************************************)
\* key.startsWith(prefix)
startsWith(s, prefix) ==
    Len(prefix) <= Len(s) /\ SubSeq(s, 1, Len(prefix)) = prefix

UsersSlash == <<"u", "s", "e", "r", "s", "/">>

\* `users/${userId}/`
getUserPrefix(userId) == UsersSlash \o userId \o <<"/">>

UserA == <<"a">>

UserB == <<"b">>

UserAB == <<"a", "b">>

NoUserId == <<>>

UserIds == {UserA, UserB, UserAB}

DigitChars == <<"0", "1", "2", "3", "4", "5", "6", "7", "8", "9">>

\* String(n) for a non-negative integer
RECURSIVE DecimalString(_)
DecimalString(n) ==
    IF n < 10 THEN <<DigitChars[n + 1]>>
    ELSE Append(DecimalString(n \div 10), DigitChars[(n % 10) + 1])

\* The characters /[^a-zA-Z0-9.-]/ does not match.
KeptChars ==
    {UpperChars[i] : i \in DOMAIN UpperChars}
        \cup {LowerChars[i] : i \in DOMAIN LowerChars}
        \cup {DigitChars[i] : i \in DOMAIN DigitChars}
        \cup {".", "-"}

\* fileName.replace(/[^a-zA-Z0-9.-]/g, '_')
sanitizedFileName(name) ==
    [i \in DOMAIN name |-> IF name[i] \in KeptChars THEN name[i] ELSE "_"]

DocumentsSlash == <<"d", "o", "c", "u", "m", "e", "n", "t", "s", "/">>

UploadKeyUnscoped(userId, timestamp, name) ==
    DocumentsSlash \o DecimalString(timestamp) \o <<"_">> \o sanitizedFileName(name)

\* `${userPrefix}documents/${timestamp}_${sanitizedFileName}`
UploadKey(userId, timestamp, name) ==
    getUserPrefix(userId) \o DocumentsSlash \o DecimalString(timestamp)
        \o <<"_">> \o sanitizedFileName(name)

\* file.name: a.pdf, ../x, /users/b/ and a name with a space and a slash
FileNames ==
    {<<"a", ".", "p", "d", "f">>,
     <<".", ".", "/", "x">>,
     <<"/", "u", "s", "e", "r", "s", "/", "b", "/">>,
     <<"B", " ", "/", "-">>}

(***************************************************************************)
(* S3Service.uploadDocument and multipartUpload.  Sizes are counted in MiB *)
(* (1024 * 1024 bytes): the threshold 5 * 1024 * 1024 is 5 and the part    *)
(* size 10 * 1024 * 1024 is 10.                                            *)
(***************************************************************************)
MULTIPART_THRESHOLD == 5

PART_SIZE == 10

\* Math.ceil(a / b) for positive integers
Ceil(a, b) == (a + b - 1) \div b

\* Math.round(a / b * 100) for non-negative a and positive b
RoundPercent(a, b) == (200 * a + b) \div (2 * b)

NumParts(size) == Ceil(size, PART_SIZE)

PartStart(partNumber) == (partNumber - 1) * PART_SIZE

PartEndUnclamped(partNumber, size) == PartStart(partNumber) + PART_SIZE

\* Math.min(start + PART_SIZE, file.size)
PartEnd(partNumber, size) == Min(PartStart(partNumber) + PART_SIZE, size)

UploadInputs ==
    [size : 1..MaxFileSize, onProgress : BOOLEAN, bucket : BOOLEAN,
     name : FileNames]

\* response.UploadId of the CreateMultipartUploadCommand (0: undefined)
UploadIds == {1, 2}

NoCalls == [put |-> 0, create |-> 0, uploadPart |-> 0, complete |-> 0, abort |-> 0]

\* A part closure: "reading" (awaiting arrayBuffer), "sending" (awaiting the
\* UploadPartCommand), "ok" (resolved, with or without an ETag), "failed".
PartState(status, etag) == [status |-> status, etag |-> etag]

InitUploadWith(inputs) ==
    /\ upInput \in inputs
    /\ upPc = "start"
    /\ uploadId = 0
    /\ parts = <<>>
    /\ uploadedBytes = 0
    /\ progress = <<>>
    /\ s3Calls = NoCalls
    /\ completeParts = <<>>
    /\ objectCompleted = FALSE
    /\ upResult = "none"
    /\ partCommands = {}
    /\ upUserId = NoUserId
    /\ upKey = <<>>
    /\ sentKeys = {}
    /\ rejections = {}
    /\ cancelled = FALSE

InitUpload == InitUploadWith(UploadInputs)

IsMultipartInclusive(size) == size >= MULTIPART_THRESHOLD

\* file.size > MULTIPART_THRESHOLD
IsMultipart(size) == size > MULTIPART_THRESHOLD

Report(loaded, total) ==
    [loaded |-> loaded, total |-> total, percentage |-> RoundPercent(loaded, total)]

\* uploadedParts.filter(part => part.ETag).map(...): the part numbers kept,
\* in the order of the uploadPromises array.
RECURSIVE PartsWithETag(_, _)
PartsWithETag(ps, n) ==
    IF n = 0 THEN <<>>
    ELSE IF ps[n].etag THEN Append(PartsWithETag(ps, n - 1), n)
    ELSE PartsWithETag(ps, n - 1)

AllPartsOk(ps) == \A n \in DOMAIN ps : ps[n].status = "ok"

\* The catch block of multipartUpload sends the abort command exactly when
\* an uploadId was obtained.
CatchSendsAbortNever(id) == FALSE

CatchSendsAbortAlways(id) == TRUE

CatchSendsAbort(id) == id # 0

CommandWithoutUploadId(kind, key, id) ==
    [command |-> kind, Key |-> key, UploadId |-> 0]

\* new ...Command({Bucket, Key: key, UploadId: uploadId, ...}); UploadId 0
\* is undefined (the put and create commands have none).
Command(kind, key, id) == [command |-> kind, Key |-> key, UploadId |-> id]

\* A command built with Key: key and UploadId: uploadId is sent.
Sends(kind) == sentKeys' = sentKeys \cup {Command(kind, upKey, uploadId)}

\* What client.send() of multipartUpload may reject with: a throttling
\* error (retryable) and a validation error (neither retryable nor auth).
UploadErrors ==
    {[defined |-> TRUE, retryable |-> FALSE, code |-> "ThrottlingException",
      statusCode |-> 0, metaStatus |-> 0, message |-> <<>>],
     [defined |-> TRUE, retryable |-> FALSE, code |-> "ValidationException",
      statusCode |-> 0, metaStatus |-> 0, message |-> <<>>]}

\* await client.send(command) rejected with error.  Each command of
\* multipartUpload is built and sent once: the rejected send was the
\* first attempt of its call, and it is the last.
Rejected(kind, partNumber, error) ==
    rejections' = rejections \cup
        {[command |-> kind, PartNumber |-> partNumber, error |-> error,
          attempt |-> 1]}

\* The catch block of multipartUpload up to its await (or to its throw).
CatchMultipart ==
    IF CatchSendsAbort(uploadId)
    THEN /\ s3Calls' = [s3Calls EXCEPT !.abort = s3Calls.abort + 1]
         /\ upPc' = "aborting"
         /\ Sends("abort")
         /\ UNCHANGED upResult
    ELSE /\ upPc' = "done"
         /\ upResult' = "Failed to upload large file"
         /\ UNCHANGED <<s3Calls, sentKeys>>

\* uploadDocument up to its first await.
UploadStart ==
    /\ upPc = "start"
    /\ IF ~upInput.bucket
       THEN /\ upPc' = "done"
            /\ upResult' = "S3 documents bucket not configured"
       ELSE /\ upPc' = "prep"
            /\ UNCHANGED upResult
    /\ UNCHANGED <<upInput, cancelled, rejections, upUserId, upKey, sentKeys,
                   partCommands, uploadId, parts, uploadedBytes, progress,
                   s3Calls, completeParts, objectCompleted, retryVars,
                   credVars, cbVars, now, keyVars>>

\* createS3Client() and getUserId() resolved.  Large file: the
\* CreateMultipartUploadCommand is sent.  Small file: file.arrayBuffer().
PrepResolve(userId) ==
    /\ upPc = "prep"
    /\ upUserId' = userId
    /\ upKey' = UploadKey(userId, now, upInput.name)
    /\ IF IsMultipart(upInput.size)
       THEN /\ s3Calls' = [s3Calls EXCEPT !.create = s3Calls.create + 1]
            /\ sentKeys' = {Command("create", upKey', 0)}
            /\ upPc' = "creating"
       ELSE /\ upPc' = "reading"
            /\ UNCHANGED <<s3Calls, sentKeys>>
    /\ UNCHANGED <<upInput, cancelled, rejections, partCommands, uploadId, parts,
                   uploadedBytes, progress, completeParts, objectCompleted,
                   upResult, retryVars, credVars, cbVars, now, keyVars>>

\* createS3Client() or getUserId() rejected: inside the try block of the
\* small path, outside the try block of multipartUpload.
PrepReject ==
    /\ upPc = "prep"
    /\ upPc' = "done"
    /\ upResult' = IF IsMultipart(upInput.size) THEN "client error"
                   ELSE "Failed to upload document"
    /\ UNCHANGED <<upInput, cancelled, rejections, upUserId, upKey, sentKeys,
                   partCommands, uploadId, parts, uploadedBytes, progress,
                   s3Calls, completeParts, objectCompleted, retryVars,
                   credVars, cbVars, now, keyVars>>

\* Small path: arrayBuffer() resolved; onProgress(0%) and the PutObjectCommand.
SmallReadResolve(throws) ==
    /\ upPc = "reading"
    /\ throws => upInput.onProgress
    /\ progress' = IF upInput.onProgress
                   THEN Append(progress, Report(0, upInput.size)) ELSE progress
    /\ IF throws
       THEN /\ upPc' = "done"
            /\ upResult' = "Failed to upload document"
            /\ UNCHANGED <<s3Calls, sentKeys>>
       ELSE /\ upPc' = "put"
            /\ s3Calls' = [s3Calls EXCEPT !.put = s3Calls.put + 1]
            /\ Sends("put")
            /\ UNCHANGED upResult
    /\ UNCHANGED <<upInput, cancelled, rejections, upUserId, upKey, partCommands,
                   uploadId, parts, uploadedBytes, completeParts,
                   objectCompleted, retryVars, credVars, cbVars, now, keyVars>>

SmallReadReject ==
    /\ upPc = "reading"
    /\ upPc' = "done"
    /\ upResult' = "Failed to upload document"
    /\ UNCHANGED <<upInput, cancelled, rejections, upUserId, upKey, sentKeys,
                   partCommands, uploadId, parts, uploadedBytes, progress,
                   s3Calls, completeParts, objectCompleted, retryVars,
                   credVars, cbVars, now, keyVars>>

\* Small path: the PutObjectCommand resolved; onProgress(100%), return key.
PutResolve(throws) ==
    /\ upPc = "put"
    /\ throws => upInput.onProgress
    /\ objectCompleted' = TRUE
    /\ progress' = IF upInput.onProgress
                   THEN Append(progress, Report(upInput.size, upInput.size))
                   ELSE progress
    /\ upPc' = "done"
    /\ upResult' = IF throws THEN "Failed to upload document" ELSE "key"
    /\ UNCHANGED <<upInput, cancelled, rejections, upUserId, upKey, sentKeys,
                   partCommands, uploadId, parts, uploadedBytes, s3Calls,
                   completeParts, retryVars, credVars, cbVars, now, keyVars>>

PutReject ==
    /\ upPc = "put"
    /\ upPc' = "done"
    /\ upResult' = "Failed to upload document"
    /\ UNCHANGED <<upInput, cancelled, rejections, upUserId, upKey, sentKeys,
                   partCommands, uploadId, parts, uploadedBytes, progress,
                   s3Calls, completeParts, objectCompleted, retryVars,
                   credVars, cbVars, now, keyVars>>

\* The CreateMultipartUploadCommand resolved with uploadId id (0: none).
\* Without an id the flow throws into its catch block; with one, the loop
\* creates every part closure, each running up to its arrayBuffer().
CreateResolve(id) ==
    /\ upPc = "creating"
    /\ uploadId' = id
    /\ IF id = 0
       THEN /\ upPc' = "done"
            /\ upResult' = "Failed to upload large file"
            /\ UNCHANGED parts
       ELSE /\ parts' = [n \in 1..NumParts(upInput.size) |->
                            PartState("reading", FALSE)]
            /\ upPc' = "parts"
            /\ UNCHANGED upResult
    /\ UNCHANGED <<upInput, cancelled, rejections, upUserId, upKey, sentKeys,
                   partCommands, uploadedBytes, progress, s3Calls,
                   completeParts, objectCompleted, retryVars, credVars, cbVars,
                   now, keyVars>>

\* The CreateMultipartUploadCommand rejected: catch block, uploadId undefined.
CreateReject(error) ==
    /\ upPc = "creating"
    /\ Rejected("create", 0, error)
    /\ CatchMultipart
    /\ UNCHANGED <<upInput, cancelled, upUserId, upKey, partCommands, uploadId, parts,
                   uploadedBytes, progress, completeParts, objectCompleted,
                   retryVars, credVars, cbVars, now, keyVars>>

\* partData.arrayBuffer() resolved: the UploadPartCommand is sent.
PartReadResolve(n) ==
    /\ n \in DOMAIN parts
    /\ parts[n].status = "reading"
    /\ parts' = [parts EXCEPT ![n] = PartState("sending", FALSE)]
    /\ s3Calls' = [s3Calls EXCEPT !.uploadPart = s3Calls.uploadPart + 1]
    /\ partCommands' = partCommands \cup
           {[PartNumber |-> n, start |-> PartStart(n),
             end |-> PartEnd(n, upInput.size)]}
    /\ Sends("uploadPart")
    /\ UNCHANGED <<upInput, cancelled, rejections, upUserId, upKey, upPc, uploadId,
                   uploadedBytes, progress, completeParts, objectCompleted,
                   upResult, retryVars, credVars, cbVars, now, keyVars>>

\* A part closure rejects.  Promise.all rejects with the first rejection
\* and the flow enters its catch block; later rejections are ignored.
PartFails(n) ==
    /\ parts' = [parts EXCEPT ![n] = PartState("failed", FALSE)]
    /\ IF upPc = "parts"
       THEN CatchMultipart
       ELSE UNCHANGED <<upPc, s3Calls, upResult, sentKeys>>

\* partData.arrayBuffer() rejected.
PartReadReject(n) ==
    /\ n \in DOMAIN parts
    /\ parts[n].status = "reading"
    /\ PartFails(n)
    /\ UNCHANGED <<upInput, cancelled, rejections, upUserId, upKey, partCommands,
                   uploadId, uploadedBytes, progress, completeParts,
                   objectCompleted, retryVars, credVars, cbVars, now, keyVars>>

\* The UploadPartCommand rejected.
PartSendReject(n, error) ==
    /\ n \in DOMAIN parts
    /\ parts[n].status = "sending"
    /\ Rejected("uploadPart", n, error)
    /\ PartFails(n)
    /\ UNCHANGED <<upInput, cancelled, upUserId, upKey, partCommands, uploadId,
                   uploadedBytes, progress, completeParts, objectCompleted,
                   retryVars, credVars, cbVars, now, keyVars>>

AddUploadedOwn(bytes, n, size) == PartEnd(n, size) - PartStart(n)

\* uploadedBytes += (end - start)
AddUploaded(bytes, n, size) == bytes + (PartEnd(n, size) - PartStart(n))

\* The UploadPartCommand resolved, with or without an ETag: uploadedBytes
\* grows and onProgress is called; the closure rejects if the callback
\* throws.  When the last closure resolves, Promise.all resolves and the
\* CompleteMultipartUploadCommand is sent.
PartSendResolve(n, etag, throws) ==
    /\ n \in DOMAIN parts
    /\ parts[n].status = "sending"
    /\ throws => upInput.onProgress
    /\ LET loaded == AddUploaded(uploadedBytes, n, upInput.size) IN
         /\ uploadedBytes' = loaded
         /\ progress' = IF upInput.onProgress
                        THEN Append(progress, Report(loaded, upInput.size))
                        ELSE progress
    /\ IF throws
       THEN /\ PartFails(n)
            /\ UNCHANGED completeParts
       ELSE /\ parts' = [parts EXCEPT ![n] = PartState("ok", etag)]
            /\ IF upPc = "parts" /\ AllPartsOk(parts')
               THEN /\ completeParts' = PartsWithETag(parts', Len(parts'))
                    /\ s3Calls' = [s3Calls EXCEPT !.complete = s3Calls.complete + 1]
                    /\ Sends("complete")
                    /\ upPc' = "completing"
               ELSE UNCHANGED <<completeParts, s3Calls, upPc, sentKeys>>
            /\ UNCHANGED upResult
    /\ UNCHANGED <<upInput, cancelled, rejections, upUserId, upKey, partCommands,
                   uploadId, objectCompleted, retryVars, credVars, cbVars, now,
                   keyVars>>

\* The CompleteMultipartUploadCommand resolved: onProgress(100%), return
\* key; a throwing callback lands in the catch block.
CompleteResolve(throws) ==
    /\ upPc = "completing"
    /\ throws => upInput.onProgress
    /\ objectCompleted' = TRUE
    /\ progress' = IF upInput.onProgress
                   THEN Append(progress, Report(upInput.size, upInput.size))
                   ELSE progress
    /\ IF throws
       THEN CatchMultipart
       ELSE /\ upPc' = "done"
            /\ upResult' = "key"
            /\ UNCHANGED <<s3Calls, sentKeys>>
    /\ UNCHANGED <<upInput, cancelled, rejections, upUserId, upKey, partCommands,
                   uploadId, parts, uploadedBytes, completeParts, retryVars,
                   credVars, cbVars, now, keyVars>>

\* The CompleteMultipartUploadCommand rejected.
CompleteReject(error) ==
    /\ upPc = "completing"
    /\ Rejected("complete", 0, error)
    /\ CatchMultipart
    /\ UNCHANGED <<upInput, cancelled, upUserId, upKey, partCommands, uploadId, parts,
                   uploadedBytes, progress, completeParts, objectCompleted,
                   retryVars, credVars, cbVars, now, keyVars>>

ThrowAfterAbortSurfacesAbortError(abortRejected) ==
    IF abortRejected THEN "Failed to abort multipart upload"
    ELSE "Failed to upload large file"

\* The statement after the try/catch around the abort:
\* throw new Error('Failed to upload large file').
ThrowAfterAbort(abortRejected) == "Failed to upload large file"

\* The AbortMultipartUploadCommand resolved.
AbortResolve ==
    /\ upPc = "aborting"
    /\ upPc' = "done"
    /\ upResult' = ThrowAfterAbort(FALSE)
    /\ UNCHANGED <<upInput, cancelled, rejections, upUserId, upKey, sentKeys,
                   partCommands, uploadId, parts, uploadedBytes, progress,
                   s3Calls, completeParts, objectCompleted, retryVars,
                   credVars, cbVars, now, keyVars>>

\* The AbortMultipartUploadCommand rejected: catch (abortError) logs it.
AbortReject(error) ==
    /\ upPc = "aborting"
    /\ Rejected("abort", 0, error)
    /\ upPc' = "done"
    /\ upResult' = ThrowAfterAbort(TRUE)
    /\ UNCHANGED <<upInput, cancelled, upUserId, upKey, sentKeys, partCommands, uploadId,
                   parts, uploadedBytes, progress, s3Calls, completeParts,
                   objectCompleted, retryVars, credVars, cbVars, now, keyVars>>

\* The caller gives up an upload whose parts are being transferred.
\* uploadDocument(file, onProgress) takes no signal or token and returns
\* only its promise, so nothing in the flow can observe this.
Cancel ==
    /\ upPc = "parts"
    /\ ~cancelled
    /\ cancelled' = TRUE
    /\ UNCHANGED <<upInput, upPc, uploadId, parts, uploadedBytes, progress,
                   s3Calls, completeParts, objectCompleted, upResult,
                   partCommands, upUserId, upKey, sentKeys, rejections,
                   retryVars, credVars, cbVars, now, keyVars>>

NextUpload ==
    \/ UploadStart
    \/ \E userId \in UserIds : PrepResolve(userId)
    \/ PrepReject
    \/ \E throws \in BOOLEAN : SmallReadResolve(throws)
    \/ SmallReadReject
    \/ \E throws \in BOOLEAN : PutResolve(throws)
    \/ PutReject
    \/ \E id \in {0} \cup UploadIds : CreateResolve(id)
    \/ \E error \in UploadErrors : CreateReject(error)
    \/ \E n \in 1..NumParts(MaxFileSize) : PartReadResolve(n)
    \/ \E n \in 1..NumParts(MaxFileSize) : PartReadReject(n)
    \/ \E n \in 1..NumParts(MaxFileSize), error \in UploadErrors :
           PartSendReject(n, error)
    \/ \E n \in 1..NumParts(MaxFileSize), etag \in BOOLEAN, throws \in BOOLEAN :
           PartSendResolve(n, etag, throws)
    \/ \E throws \in BOOLEAN : CompleteResolve(throws)
    \/ \E error \in UploadErrors : CompleteReject(error)
    \/ AbortResolve
    \/ \E error \in UploadErrors : AbortReject(error)

(***************************************************************************)
(* S3Service operations on a key the caller supplies: downloadDocument,    *)
(* getPresignedDownloadUrl, deleteDocument, getDocumentMetadata,           *)
(* getDownloadUrl and copyToProcessedBucket.  Keys and user ids are        *)
(* sequences of characters, so that startsWith is computed.                *)
(***************************************************************************)
\* users/a/d, users/b/d, users/ab/d, users/a, x/users/a/d and the empty key
KeyOwn == <<"u", "s", "e", "r", "s", "/", "a", "/", "d">>

KeyOther == <<"u", "s", "e", "r", "s", "/", "b", "/", "d">>

KeyLongerUser == <<"u", "s", "e", "r", "s", "/", "a", "b", "/", "d">>

KeyNoSlash == <<"u", "s", "e", "r", "s", "/", "a">>

KeyNested == <<"x", "/", "u", "s", "e", "r", "s", "/", "a", "/", "d">>

Keys == {KeyOwn, KeyOther, KeyLongerUser, KeyNoSlash, KeyNested, <<>>}

SendingOps == {"downloadDocument", "deleteDocument", "getDocumentMetadata",
               "copyToProcessedBucket"}

SigningOps == {"getPresignedDownloadUrl", "getDownloadUrl"}

KeyOps == SendingOps \cup SigningOps

KeyInputs == [op : KeyOps, key : Keys]

AccessDeniedMessage == "Access denied: Document does not belong to user"

\* The message of the Error each operation's catch block throws.
FailureMessage(op) ==
    CASE op = "downloadDocument" -> "Failed to download document"
      [] op = "getPresignedDownloadUrl" -> "Failed to generate download URL"
      [] op = "deleteDocument" -> "Failed to delete document"
      [] op = "getDocumentMetadata" -> "Failed to get document metadata"
      [] op = "getDownloadUrl" -> "Failed to generate download URL"
      [] op = "copyToProcessedBucket" -> "Failed to copy to processed bucket"

\* Calls that leave the process: fetchAuthSession(), getCurrentUser(),
\* client.send(command); getSignedUrl() signs locally.
NoKeyCalls == [fetchAuthSession |-> 0, getCurrentUser |-> 0, send |-> 0,
               getSignedUrl |-> 0]

NoKeyResult == [kind |-> "none", value |-> "none"]

Returned(value) == [kind |-> "returned", value |-> value]

Threw(message) == [kind |-> "threw", value |-> message]

InitKeyWith(inputs) ==
    /\ keyInput \in inputs
    /\ keyCall = [pc |-> "start", now |-> 0, userId |-> NoUserId,
                  result |-> NoKeyResult]
    /\ keyCalls = NoKeyCalls

InitKey == InitKeyWith(KeyInputs)

\* The catch block of an operation: getDocumentMetadata returns null for an
\* error named 'NotFound'; otherwise the operation's own Error is thrown,
\* whatever was caught.
Catch(op, name, message) ==
    IF op = "getDocumentMetadata" /\ name = "NotFound"
    THEN Returned("null")
    ELSE Threw(FailureMessage(op))

Called(calls, f) == [calls EXCEPT ![f] = calls[f] + 1]

\* An operation up to its first pending call: createS3Client() awaits
\* getAwsCredentials(), which answers from the cache or calls
\* fetchAuthSession(); with cached credentials the operation goes on to
\* getUserId(), which calls fetchAuthSession().
KeyOpStart ==
    /\ keyCall.pc = "start"
    /\ keyCall' = [keyCall EXCEPT
                     !.pc = IF CacheIsFresh(credentialCache, now)
                            THEN "session" ELSE "client",
                     !.now = now]
    /\ keyCalls' = Called(keyCalls, "fetchAuthSession")
    /\ UNCHANGED <<keyInput, retryVars, credVars, cbVars, upVars, now>>

\* fetchAuthSession() of getAwsCredentials() delivers credentials: the
\* cache is replaced, the client is built, getUserId() calls
\* fetchAuthSession().
KeyClientResolve(offset) ==
    /\ keyCall.pc = "client"
    /\ issued < MaxIssued
    /\ issued' = issued + 1
    /\ credentialCache' =
           [credentials |-> issued + 1,
            expiration |-> IF offset >= 0 THEN now + offset
                           ELSE keyCall.now + OneHour]
    /\ keyCall' = [keyCall EXCEPT !.pc = "session"]
    /\ keyCalls' = Called(keyCalls, "fetchAuthSession")
    /\ UNCHANGED <<keyInput, getCred, invalidated, timerVars, retryVars,
                   cbVars, upVars, now>>

\* getAwsCredentials() throws: the operation's catch block.
KeyClientReject ==
    /\ keyCall.pc = "client"
    /\ keyCall' = [keyCall EXCEPT
                     !.pc = "done",
                     !.result = Catch(keyInput.op, "Error", CredentialsUnavailable)]
    /\ UNCHANGED <<keyInput, keyCalls, retryVars, credVars, cbVars, upVars, now>>

\* From the resolved user id to the operation's next pending call:
\* the prefix test, then the command is sent or signed.
KeyCheckAndSend(userId) ==
    IF ~startsWith(keyInput.key, getUserPrefix(userId))
    THEN /\ keyCall' = [keyCall EXCEPT
                          !.pc = "done",
                          !.userId = userId,
                          !.result = Catch(keyInput.op, "Error", AccessDeniedMessage)]
         /\ UNCHANGED keyCalls
    ELSE /\ keyCall' = [keyCall EXCEPT
                          !.pc = IF keyInput.op \in SigningOps
                                 THEN "signing" ELSE "sending",
                          !.userId = userId]
         /\ keyCalls' = Called(keyCalls,
                               IF keyInput.op \in SigningOps
                               THEN "getSignedUrl" ELSE "send")

\* fetchAuthSession() of getUserId() resolves: session.identityId is the
\* user id, or getCurrentUser() is called when the session has none.
KeySessionResolve(identityId) ==
    /\ keyCall.pc = "session"
    /\ IF identityId # NoUserId
       THEN KeyCheckAndSend(identityId)
       ELSE /\ keyCall' = [keyCall EXCEPT !.pc = "currentUser"]
            /\ keyCalls' = Called(keyCalls, "getCurrentUser")
    /\ UNCHANGED <<keyInput, retryVars, credVars, cbVars, upVars, now>>

KeySessionReject ==
    /\ keyCall.pc = "session"
    /\ keyCall' = [keyCall EXCEPT
                     !.pc = "done",
                     !.result = Catch(keyInput.op, "Error", "session")]
    /\ UNCHANGED <<keyInput, keyCalls, retryVars, credVars, cbVars, upVars, now>>

\* getCurrentUser() resolves with the user id.
KeyCurrentUserResolve(userId) ==
    /\ keyCall.pc = "currentUser"
    /\ KeyCheckAndSend(userId)
    /\ UNCHANGED <<keyInput, retryVars, credVars, cbVars, upVars, now>>

KeyCurrentUserReject ==
    /\ keyCall.pc = "currentUser"
    /\ keyCall' = [keyCall EXCEPT
                     !.pc = "done",
                     !.result = Catch(keyInput.op, "Error", "user")]
    /\ UNCHANGED <<keyInput, keyCalls, retryVars, credVars, cbVars, upVars, now>>

\* client.send(command) or getSignedUrl() resolves; downloadDocument throws
\* when the response has no Body.
KeySendResolve(hasBody) ==
    /\ keyCall.pc \in {"sending", "signing"}
    /\ keyCall' = [keyCall EXCEPT
                     !.pc = "done",
                     !.result = IF keyInput.op = "downloadDocument" /\ ~hasBody
                                THEN Catch(keyInput.op, "Error",
                                           "No content received from S3")
                                ELSE Returned("value")]
    /\ UNCHANGED <<keyInput, keyCalls, retryVars, credVars, cbVars, upVars, now>>

\* client.send(command) or getSignedUrl() rejects with an error of that name.
KeySendReject(name) ==
    /\ keyCall.pc \in {"sending", "signing"}
    /\ keyCall' = [keyCall EXCEPT
                     !.pc = "done",
                     !.result = Catch(keyInput.op, name, "store")]
    /\ UNCHANGED <<keyInput, keyCalls, retryVars, credVars, cbVars, upVars, now>>

NextKey ==
    \/ KeyOpStart
    \/ \E offset \in ExpirationOffsets : KeyClientResolve(offset)
    \/ KeyClientReject
    \/ \E identityId \in UserIds \cup {NoUserId} : KeySessionResolve(identityId)
    \/ KeySessionReject
    \/ \E userId \in UserIds : KeyCurrentUserResolve(userId)
    \/ KeyCurrentUserReject
    \/ \E hasBody \in BOOLEAN : KeySendResolve(hasBody)
    \/ \E name \in {"NotFound", "Error"} : KeySendReject(name)
    \/ Tick

(***************************************************************************)
(* withRetry(() => breaker.execute(op)): the operation of the retry loop   *)
(* is execute() of one breaker, called by caller 1.  A call of operation() *)
(* runs execute() up to its await in the same step.                        *)
(***************************************************************************)
Wrapped == 1

\* The AWSError execute() throws while open, as withRetry's catch block
\* reads it: retryable is true, code and statusCode are undefined.
CircuitOpenRaw ==
    [defined |-> TRUE, retryable |-> TRUE, code |-> "", statusCode |-> 0,
     metaStatus |-> 0, message |-> CircuitOpenMessage]

\* What op may reject with: a throttling error (retryable) and a validation
\* error (neither retryable nor auth).
OperationErrors ==
    {[defined |-> TRUE, retryable |-> FALSE, code |-> "ThrottlingException",
      statusCode |-> 0, metaStatus |-> 0, message |-> <<>>],
     [defined |-> TRUE, retryable |-> FALSE, code |-> "ValidationException",
      statusCode |-> 0, metaStatus |-> 0, message |-> <<>>]}

\* for (...; attempt <= maxAttempts; ...) { try { return await operation():
\* execute() either calls op or throws the circuit-open error, which the
\* catch block of withRetry receives.
WrappedInvoke ==
    /\ rPc = "loop"
    /\ attempt <= retryConfig.maxAttempts
    /\ cbCalls[Wrapped] = "idle"
    /\ invocations' = invocations + 1
    /\ LET a == Admit(cb, cbConfig, now) IN
         /\ cb' = a.breaker
         /\ IF a.admitted
            THEN /\ cbCalls' = [cbCalls EXCEPT ![Wrapped] = "inflight"]
                 /\ cbLast' = Event("started", Wrapped, cb.state, NoResult)
                 /\ rPc' = "awaitOp"
                 /\ UNCHANGED <<lastError, history, sleeps, rResult, signOuts>>
            ELSE /\ cbLast' = Event("rejected", Wrapped, cb.state, CircuitOpenError)
                 /\ Caught(CircuitOpenRaw)
                 /\ UNCHANGED cbCalls
    /\ UNCHANGED <<retryConfig, backoff, classified, attempt, delay, cbConfig,
                   consecutiveFailures, credVars, upVars, now, keyVars>>

\* op resolves: execute() records the success and returns, withRetry
\* returns the value.
WrappedOpResolve ==
    /\ rPc = "awaitOp"
    /\ cbCalls[Wrapped] = "inflight"
    /\ cb' = OnSuccess(cb, cbConfig)
    /\ cbCalls' = [cbCalls EXCEPT ![Wrapped] = "idle"]
    /\ cbLast' = Event("succeeded", Wrapped, cb.state, NoResult)
    /\ consecutiveFailures' = 0
    /\ rResult' = OkResult
    /\ history' = Append(history, "ok")
    /\ rPc' = "done"
    /\ UNCHANGED <<retryConfig, backoff, classified, attempt, delay, lastError,
                   invocations, sleeps, signOuts, cbConfig, credVars, upVars,
                   now, keyVars>>

\* op rejects with error: execute() records the failure and rethrows, the
\* catch block of withRetry receives the error.
WrappedOpReject(error) ==
    /\ rPc = "awaitOp"
    /\ cbCalls[Wrapped] = "inflight"
    /\ cb.failures < MaxFailures
    /\ cb' = OnFailure(cb, cbConfig, now)
    /\ cbCalls' = [cbCalls EXCEPT ![Wrapped] = "idle"]
    /\ cbLast' = Event("failed", Wrapped, cb.state, OperationError)
    /\ consecutiveFailures' = consecutiveFailures + 1
    /\ Caught(error)
    /\ UNCHANGED <<retryConfig, backoff, classified, attempt, delay, invocations,
                   cbConfig, credVars, upVars, now, keyVars>>

\* The caller starts another withRetry(() => breaker.execute(op)) after the
\* previous one settled; the breaker is the same object.
WrappedAgain ==
    /\ rPc = "done"
    /\ rPc' = "loop"
    /\ attempt' = 1
    /\ delay' = retryConfig.initialDelay
    /\ lastError' = NoError
    /\ invocations' = 0
    /\ sleeps' = <<>>
    /\ signOuts' = 0
    /\ rResult' = NoResult
    /\ history' = <<>>
    /\ UNCHANGED <<retryConfig, backoff, classified, credVars, cbVars, upVars, now,
                   keyVars>>

NextWrapped ==
    \/ WrappedInvoke
    \/ RetryLoopExit
    \/ WrappedOpResolve
    \/ \E error \in OperationErrors : WrappedOpReject(error)
    \/ RetrySleepDone
    \/ WrappedAgain
    \/ Tick

(***************************************************************************)
(* Specifications                                                          *)
(***************************************************************************)
InitTime == now = 1

\* States in which no run of a subsystem has begun.
IdleRetry == InitRetryWith({defaultRetryConfig})

IdleBreaker == InitBreakerWith({defaultBreakerConfig})

IdleUpload ==
    InitUploadWith({[size |-> 1, onProgress |-> FALSE, bucket |-> TRUE,
                     name |-> <<"a">>]})

IdleKey == InitKeyWith({[op |-> "downloadDocument", key |-> KeyOwn]})

InitSpecRetry == InitRetry /\ InitCred /\ IdleBreaker /\ IdleUpload /\ IdleKey /\ InitTime

SpecRetry == InitSpecRetry /\ [][NextRetry]_vars

NextClassify == Classify

InitClassify == InitRetryOf({defaultRetryConfig}, ClassifyErrors)

InitSpecClassify == InitClassify /\ InitCred /\ IdleBreaker /\ IdleUpload /\ IdleKey /\ InitTime

SpecClassify == InitSpecClassify /\ [][NextClassify]_vars

SpecHandle == InitSpecClassify /\ [][NextHandle]_vars

InitSpecBackoff ==
    InitRetryWith(BackoffConfigs) /\ InitCred /\ IdleBreaker /\ IdleUpload
        /\ IdleKey /\ InitTime

SpecBackoff == InitSpecBackoff /\ [][NextBackoff]_vars

InitSpecCred == IdleRetry /\ InitCred /\ IdleBreaker /\ IdleUpload /\ IdleKey /\ InitTime

SpecCred == InitSpecCred /\ [][NextCred]_vars

\* The credential cache with the refresh timer as its only caller.
NextCredRefresh == NextRefresh \/ clearCredentialCache \/ Tick

InitSpecRefresh == IdleRetry /\ InitCred /\ IdleBreaker /\ IdleUpload /\ IdleKey /\ InitTime

SpecRefresh == InitSpecRefresh /\ [][NextCredRefresh]_vars

InitSpecBreaker == IdleRetry /\ InitCred /\ InitBreaker /\ IdleUpload /\ IdleKey /\ InitTime

SpecBreaker == InitSpecBreaker /\ [][NextBreaker]_vars

\* Two callers of one breaker that keep calling execute(), with operations
\* that settle by resolving whenever they can.
LiveCallers == {1, 2}

NextBreakerLive ==
    \/ \E c \in LiveCallers : Execute(c)
    \/ \E c \in LiveCallers : ExecuteResolve(c)
    \/ \E c \in LiveCallers : ExecuteReject(c)
    \/ reset
    \/ Tick

BreakerFairness ==
    \A c \in LiveCallers :
        WF_vars(Execute(c)) /\ WF_vars(ExecuteResolve(c))

SpecBreakerLive ==
    InitSpecBreaker /\ [][NextBreakerLive]_vars /\ BreakerFairness

InitSpecUpload == IdleRetry /\ InitCred /\ IdleBreaker /\ InitUpload /\ IdleKey /\ InitTime

SpecUpload == InitSpecUpload /\ [][NextUpload]_vars

\* Uploads of a file at the multipart threshold and of the largest file,
\* which the caller may give up; every pending promise of the flow settles.
CancelInputs ==
    [size : {MULTIPART_THRESHOLD, MaxFileSize}, onProgress : {TRUE},
     bucket : {TRUE}, name : {<<"a">>}]

NextCancel == NextUpload \/ Cancel

InitSpecCancel ==
    IdleRetry /\ InitCred /\ IdleBreaker /\ InitUploadWith(CancelInputs)
        /\ IdleKey /\ InitTime

SpecCancel == InitSpecCancel /\ [][NextCancel]_vars /\ WF_vars(NextUpload)

\* withRetry(operation, { maxAttempts }): the other fields are the defaults.
MaxAttemptsConfigs ==
    {[defaultRetryConfig EXCEPT !.maxAttempts = n] : n \in 0..MaxAttemptsBound}

\* The credential cache after one getAwsCredentials() call, made by caller 1
\* at time 1, fetched a credential (GetCredentialsCall, then FetchResolve).
CredentialsFetched ==
    \E offset \in ExpirationOffsets :
        /\ credentialCache =
               [credentials |-> 1,
                expiration |-> IF offset >= 0 THEN 1 + offset ELSE 1 + OneHour]
        /\ getCred = [c \in CredCallers |->
               IF c = 1
               THEN [pc |-> "returned", now |-> 0, result |-> "fetched",
                     credentials |-> 1]
               ELSE IdleCall]
        /\ issued = 1
        /\ invalidated = FALSE
        /\ refreshInterval = NoTimer
        /\ timers = {}
        /\ timersCreated = 0

\* A withRetry run that starts with the credential cache empty or filled.
InitSpecAuthFailure ==
    /\ InitRetryWith(MaxAttemptsConfigs)
    /\ (InitCred \/ CredentialsFetched)
    /\ IdleBreaker /\ IdleUpload /\ IdleKey /\ InitTime

SpecAuthFailure == InitSpecAuthFailure /\ [][NextRetry]_vars

\* An operation on a key, started with the credential cache empty or filled.
InitSpecWrapped ==
    /\ InitRetryWith(MaxAttemptsConfigs)
    /\ InitCred
    /\ InitBreaker
    /\ IdleUpload
    /\ IdleKey
    /\ InitTime

SpecWrapped == InitSpecWrapped /\ [][NextWrapped]_vars

InitSpecKey ==
    /\ IdleRetry
    /\ (InitCred \/ CredentialsFetched)
    /\ IdleBreaker /\ IdleUpload /\ InitKey /\ InitTime

SpecKey == InitSpecKey /\ [][NextKey]_vars

(***************************************************************************)
(* Properties                                                              *)
(***************************************************************************)
AllRetryable(h) == \A i \in 1..Len(h) : h[i] \in {"retryable", "both"}

RetryFailed == rPc = "done" /\ rResult.type = "AWSError"

\* withRetry surfaced the authentication error of handleAWSError
AuthenticationErrorSurfaced(result) ==
    /\ result.type = "AWSError"
    /\ result.message = AuthenticationMessage
    /\ result.retryable = FALSE

\* C1: with maxAttempts = N >= 1 the operation is never invoked more than
\* N times; when every attempt fails with a retryable error it is invoked
\* exactly N times and withRetry fails; when the first attempt fails with a
\* fatal error it is invoked exactly once and withRetry fails without
\* having slept.
C1_RetryBound ==
    retryConfig.maxAttempts >= 1 =>
        /\ invocations <= retryConfig.maxAttempts
        /\ (rPc = "done" /\ AllRetryable(history)) =>
               (invocations = retryConfig.maxAttempts /\ RetryFailed)
        /\ (history # <<>> /\ history[1] = "fatal") =>
               (RetryFailed /\ invocations = 1 /\ sleeps = <<>>)

C1_Witness ==
    /\ retryConfig.maxAttempts >= 2
    /\ rPc = "done"
    /\ AllRetryable(history)
    /\ invocations = retryConfig.maxAttempts
    /\ RetryFailed

\* C2: every failure that classifies as an auth failure, whatever its other
\* attributes, ends the run at that attempt: no sleep follows it, the
\* authentication error (retryable = false) is surfaced, and an auth
\* failure of the first attempt leaves the operation invoked exactly once.
C2_AuthFailureStops ==
    (history # <<>> /\ Last(history) \in {"auth", "both"}) =>
        /\ rPc = "done"
        /\ AuthenticationErrorSurfaced(rResult)
        /\ Len(sleeps) = Len(history) - 1
        /\ (Len(history) = 1 => invocations = 1)

\* The states CredentialsFetched describes are states getAwsCredentials
\* reaches (checked under SpecCred).
CredentialsFetchedReachable ==
    \E c \in Callers : getCred[c].result = "fetched"
        /\ credentialCache.credentials = getCred[c].credentials
        /\ CacheIsFresh(credentialCache, now)

\* C3: at the moment withRetry surfaces the authentication error the
\* credential cache holds no credential.
C3_AuthFailureInvalidatesCache ==
    [][(rPc # "done" /\ rPc' = "done" /\ AuthenticationErrorSurfaced(rResult'))
           => credentialCache'.credentials = NoCredentials]_vars

InFlight(calls) == {c \in Callers : calls[c] = "inflight"}

BreakerEvent == cbLast'.seq # cbLast.seq

\* C4: execute never starts the operation while the breaker is open and no
\* more than resetTimeout has elapsed since the last failure: such a call
\* is rejected at once with the retryable circuit-open error and leaves
\* the breaker as it was.
C4_OpenRejects ==
    [][(cb.state = "open" /\ now - cb.lastFailureTime <= cbConfig.resetTimeout)
           => /\ InFlight(cbCalls') \subseteq InFlight(cbCalls)
              /\ (BreakerEvent /\ cbLast'.kind \in {"started", "rejected"}) =>
                     /\ cbLast'.kind = "rejected"
                     /\ cbLast'.error = CircuitOpenError
                     /\ cbLast'.error.retryable
                     /\ cb' = cb]_vars

C4_Witness ==
    /\ cbLast.kind = "rejected"
    /\ cb.state = "open"
    /\ now - cb.lastFailureTime <= cbConfig.resetTimeout
    /\ InFlight(cbCalls) = {}

\* C5: from closed the breaker opens exactly on the failure that brings the
\* number of consecutive failures to failureThreshold; a success while
\* closed sets the failure counter to zero and leaves the breaker closed.
C5_OpensAtThreshold ==
    [][(BreakerEvent /\ cb.state = "closed")
           => /\ cb'.state \in {"closed", "open"}
              /\ cb'.state = "open" <=>
                     (cbLast'.kind = "failed"
                      /\ consecutiveFailures' = cbConfig.failureThreshold)
              /\ cbLast'.kind = "succeeded" =>
                     (cb'.failures = 0 /\ cb'.state = "closed")]_vars

C5_Witness ==
    /\ cbConfig.failureThreshold = 2
    /\ cbLast.kind = "failed"
    /\ cbLast.from = "closed"
    /\ cb.state = "open"
    /\ consecutiveFailures = 2

\* C6: when the breaker is open and more than resetTimeout has elapsed
\* since the last failure, an execute call moves it to half-open with
\* halfOpenAttempts = 0 and starts exactly one operation, its own.
C6_HalfOpenAfterTimeout ==
    [][(BreakerEvent /\ cbLast'.kind \in {"started", "rejected"}
        /\ cb.state = "open" /\ now - cb.lastFailureTime > cbConfig.resetTimeout)
           => /\ cbLast'.kind = "started"
              /\ cb'.state = "half-open"
              /\ cb'.halfOpenAttempts = 0
              /\ cbLast'.caller \notin InFlight(cbCalls)
              /\ InFlight(cbCalls') = InFlight(cbCalls) \cup {cbLast'.caller}]_vars

C6_Witness ==
    /\ cbLast.kind = "started"
    /\ cbLast.from = "open"
    /\ cb.state = "half-open"
    /\ cb.halfOpenAttempts = 0
    /\ cbCalls[cbLast.caller] = "inflight"

\* C7: a success seen while half-open counts one probe; execute closes the
\* breaker on the success that brings the count to halfOpenRequests, with
\* the failure counter at zero, and leaves it half-open on an earlier one.
C7_ClosesAfterProbes ==
    [][(BreakerEvent /\ cb.state = "half-open")
           => /\ cb.halfOpenAttempts < cbConfig.halfOpenRequests
              /\ cbLast'.kind = "succeeded" =>
                     /\ cb'.halfOpenAttempts = cb.halfOpenAttempts + 1
                     /\ IF cb'.halfOpenAttempts = cbConfig.halfOpenRequests
                        THEN cb'.state = "closed" /\ cb'.failures = 0
                        ELSE cb'.state = "half-open"
              /\ (cb'.state = "closed" /\ cbLast'.kind # "reset") =>
                     (cbLast'.kind = "succeeded"
                      /\ cb'.halfOpenAttempts = cbConfig.halfOpenRequests)]_vars

C7_Witness ==
    /\ cbConfig.halfOpenRequests = 2
    /\ cbLast.kind = "succeeded"
    /\ cbLast.from = "half-open"
    /\ cb.state = "closed"
    /\ cb.halfOpenAttempts = 2
    /\ cb.failures = 0

\* C8: a failure seen while half-open opens the breaker again, whatever
\* the number of probe successes before it, and becomes the failure the
\* reset timeout is measured from.
C8_HalfOpenFailureReopens ==
    [][(BreakerEvent /\ cb.state = "half-open" /\ cbLast'.kind = "failed")
           => /\ cb'.state = "open"
              /\ cb'.lastFailureTime = now
              /\ ~(now' - cb'.lastFailureTime > cbConfig.resetTimeout)]_vars

C8_Witness ==
    /\ cbLast.kind = "failed"
    /\ cbLast.from = "half-open"
    /\ cb.state = "open"
    /\ cb.halfOpenAttempts >= 1
    /\ cb.lastFailureTime = now

SomePartFailed == \E n \in DOMAIN parts : parts[n].status = "failed"

\* C9: once a part upload of a multipart upload has failed, the abort
\* command has been sent exactly once, however many parts fail, the
\* complete command is never sent, no completed object exists, and the
\* upload ends with an error.
C9_AbortOnceNeverComplete ==
    SomePartFailed =>
        /\ s3Calls.abort = 1
        /\ s3Calls.complete = 0
        /\ ~objectCompleted
        /\ upPc \in {"aborting", "done"}
        /\ upPc = "done" => upResult = "Failed to upload large file"

C9_Witness ==
    /\ Cardinality({n \in DOMAIN parts : parts[n].status = "failed"}) >= 2
    /\ upPc = "done"
    /\ s3Calls.abort = 1
    /\ upResult = "Failed to upload large file"

\* C10: at most one identity-provider call (fetchAuthSession) is in flight
\* at any time.
C10_SingleFlight ==
    Cardinality({c \in Callers : getCred[c].pc = "fetching"}) <= 1

\* A step in which caller c begins a getAwsCredentials() call.
CallBegins(c) == getCred[c].pc # "fetching" /\ getCred'[c] # getCred[c]

\* A step in which the fetchAuthSession() call of caller c delivers
\* credentials.
FetchDelivers(c) == getCred[c].pc = "fetching" /\ getCred'[c].pc = "returned"

\* C11: a getAwsCredentials() call made while the cache holds a credential
\* that expires more than five minutes later returns that credential, calls
\* no identity provider and leaves the cache alone; a call made in any other
\* state calls the identity provider, and when the provider delivers, the
\* cache is replaced by the new credential and that credential is returned.
C11_CachedOrFetched ==
    [][\A c \in Callers :
        /\ CallBegins(c) =>
              IF /\ credentialCache.credentials # NoCredentials
                 /\ credentialCache.expiration - now > FiveMinutes
              THEN /\ getCred'[c].pc = "returned"
                   /\ getCred'[c].credentials = credentialCache.credentials
                   /\ credentialCache' = credentialCache
                   /\ issued' = issued
              ELSE /\ getCred'[c].pc = "fetching"
                   /\ credentialCache' = credentialCache
        /\ FetchDelivers(c) =>
              /\ issued' = issued + 1
              /\ credentialCache'.credentials = issued'
              /\ credentialCache'.expiration
                     \in {now + offset : offset \in 0..OneHour}
                         \cup {getCred[c].now + OneHour}
              /\ getCred'[c].credentials = credentialCache'.credentials]_vars

C11_Witness ==
    \E c, d \in Callers :
        /\ getCred[c].result = "fetched"
        /\ getCred[d].result = "cached"
        /\ getCred[d].credentials = getCred[c].credentials
        /\ credentialCache.credentials = getCred[d].credentials
        /\ issued = 1

\* C12: clearCredentialCache() leaves the cache empty, and the first
\* getAwsCredentials() call that begins after it, even when a
\* fetchAuthSession() call was in flight while the cache was cleared, calls
\* the identity provider instead of returning a cached credential.
C12_InvalidateForcesFetch ==
    [][/\ (invalidated' /\ ~invalidated) => credentialCache' = EmptyCache
       /\ \A c \in Callers :
              (invalidated /\ CallBegins(c)) => getCred'[c].pc = "fetching"]_vars

\* C13: when the fetchAuthSession() call of a getAwsCredentials() call fails
\* or delivers no credentials, the call throws 'Failed to get AWS
\* credentials. Please sign in again.', starts no further provider call and
\* leaves the cache as it was; and every change of the cache either empties
\* it or replaces both of its fields by a newly delivered credential.
C13_FailureKeepsCache ==
    [][/\ \A c \in Callers :
              (getCred[c].pc = "fetching" /\ getCred'[c].pc # "fetching"
                   /\ getCred'[c].pc # "returned") =>
                  /\ getCred'[c].pc = "threw"
                  /\ getCred'[c].result = CredentialsUnavailable
                  /\ getCred'[c].credentials = NoCredentials
                  /\ credentialCache' = credentialCache
                  /\ issued' = issued
                  /\ \A d \in CredCallers :
                         getCred'[d].pc = "fetching" => getCred[d].pc = "fetching"
       /\ credentialCache' # credentialCache =>
              \/ credentialCache' = EmptyCache
              \/ /\ issued' = issued + 1
                 /\ credentialCache'.credentials = issued'
                 /\ credentialCache'.expiration >= now
                 /\ \E c \in Callers : FetchDelivers(c)]_vars

C13_Witness ==
    \E c \in Callers :
        /\ getCred[c].pc = "threw"
        /\ getCred[c].result = CredentialsUnavailable
        /\ credentialCache.credentials # NoCredentials
        /\ credentialCache.expiration <= now + FiveMinutes
        /\ issued = 1

\* A step in which the callback of the refresh timer runs.
TimerTicks == getCred[Timer].pc # "fetching" /\ getCred'[Timer] # getCred[Timer]

\* C14: when the callback of the refresh timer runs while the cached
\* credential has less than fifteen minutes left, it calls the identity
\* provider, and the credential delivered replaces the cache; when fifteen
\* minutes or more are left it calls no identity provider.
C14_TickRefreshesBelowThreshold ==
    [][/\ TimerTicks =>
              IF credentialCache.expiration - now < FifteenMinutes
              THEN getCred'[Timer].pc = "fetching"
              ELSE getCred'[Timer].pc # "fetching"
       /\ FetchDelivers(Timer) =>
              /\ credentialCache'.credentials = issued'
              /\ issued' = issued + 1]_vars

\* The key does not begin with users/{userId}/.
OutsidePrefix(key, userId) ==
    LET prefix == <<"u", "s", "e", "r", "s", "/">> \o userId \o <<"/">> IN
    \E i \in 1..Len(prefix) : i > Len(key) \/ key[i] # prefix[i]

\* C15: an operation on a caller-supplied key that lies outside the prefix
\* users/{userId}/ of the caller ends by throwing the access-denied error,
\* and no call has left the process before it does.
C15_OutsidePrefixDenied ==
    (/\ keyCall.pc = "done"
     /\ keyCall.userId # NoUserId
     /\ OutsidePrefix(keyInput.key, keyCall.userId)) =>
        /\ keyCall.result = Threw(AccessDeniedMessage)
        /\ keyCalls = NoKeyCalls

\* C16: the complete command of a multipart upload is sent at most once and
\* only when every part upload has succeeded, its Parts list then holds
\* exactly the part numbers 1..numParts in ascending order, and an upload
\* of a large file that returns its key has sent it.
C16_CompleteListsEveryPart ==
    /\ s3Calls.complete <= 1
    /\ s3Calls.complete = 1 =>
           /\ \A n \in DOMAIN parts : parts[n].status = "ok"
           /\ Len(parts) * PART_SIZE >= upInput.size
           /\ (Len(parts) - 1) * PART_SIZE < upInput.size
           /\ completeParts = [n \in 1..Len(parts) |-> n]
    /\ (upResult = "key" /\ upInput.size > MULTIPART_THRESHOLD) =>
           s3Calls.complete = 1

RECURSIVE BytesCarried(_)
BytesCarried(commands) ==
    IF commands = {} THEN 0
    ELSE LET c == CHOOSE x \in commands : TRUE
         IN (c.end - c.start) + BytesCarried(commands \ {c})

EveryPartRead == \A n \in DOMAIN parts : parts[n].status \in {"sending", "ok"}

\* C17: a multipart upload of a file of size S makes ceil(S / PART_SIZE)
\* part closures; every UploadPartCommand sent carries a part number of
\* 1..ceil(S / PART_SIZE) that no other command carries and the bytes
\* [(i-1) * PART_SIZE, min(i * PART_SIZE, S)) of the file, so every part but
\* the last has PART_SIZE bytes and no two parts overlap; and once every
\* part has been read, and in every upload that returns its key, exactly one
\* command per part has been sent and the parts add up to S.
C17_PartsPartitionPayload ==
    parts # <<>> =>
        LET numParts == Len(parts)
            S == upInput.size
        IN  /\ S > MULTIPART_THRESHOLD
            /\ (numParts - 1) * PART_SIZE < S
            /\ S <= numParts * PART_SIZE
            /\ s3Calls.uploadPart = Cardinality(partCommands)
            /\ \A c \in partCommands :
                   /\ c.PartNumber \in 1..numParts
                   /\ c.start = (c.PartNumber - 1) * PART_SIZE
                   /\ c.end = IF c.PartNumber * PART_SIZE < S
                              THEN c.PartNumber * PART_SIZE ELSE S
                   /\ c.start < c.end
                   /\ c.PartNumber < numParts => c.end - c.start = PART_SIZE
            /\ \A c, d \in partCommands :
                   c # d => /\ c.PartNumber # d.PartNumber
                            /\ (c.end <= d.start \/ d.end <= c.start)
            /\ (EveryPartRead \/ upResult = "key") =>
                   /\ s3Calls.uploadPart = numParts
                   /\ {c.PartNumber : c \in partCommands} = 1..numParts
                   /\ BytesCarried(partCommands) = S

C17_Witness ==
    /\ upInput.size = 25
    /\ upResult = "key"
    /\ s3Calls.uploadPart = 3
    /\ partCommands =
           {[PartNumber |-> 1, start |-> 0, end |-> 10],
            [PartNumber |-> 2, start |-> 10, end |-> 20],
            [PartNumber |-> 3, start |-> 20, end |-> 25]}

\* C18: an upload of a file of at most MULTIPART_THRESHOLD sends at most
\* one PutObjectCommand and no multipart command; it reports 0% before the
\* command is sent and 100% only after the command resolved, and when it
\* returns its key it has sent the command exactly once.  An upload of a
\* larger file never sends a PutObjectCommand, and when it returns its key
\* it has created and completed one multipart upload.
C18_OnePathBySize ==
    LET S == upInput.size
        zero == [loaded |-> 0, total |-> S, percentage |-> 0]
        full == [loaded |-> S, total |-> S, percentage |-> 100]
    IN  /\ S <= MULTIPART_THRESHOLD =>
               /\ s3Calls.put <= 1
               /\ s3Calls.create = 0 /\ s3Calls.uploadPart = 0
               /\ s3Calls.complete = 0 /\ s3Calls.abort = 0
               /\ (s3Calls.put = 1 /\ upInput.onProgress) =>
                      /\ progress \in {<<zero>>, <<zero, full>>}
                      /\ progress = <<zero, full>> => objectCompleted
               /\ s3Calls.put = 0 => Len(progress) <= 1 /\ ~objectCompleted
               /\ upResult = "key" =>
                      /\ s3Calls.put = 1
                      /\ objectCompleted
                      /\ upInput.onProgress => progress = <<zero, full>>
        /\ S > MULTIPART_THRESHOLD =>
               /\ s3Calls.put = 0
               /\ upResult = "key" =>
                      /\ s3Calls.create = 1
                      /\ s3Calls.complete = 1
                      /\ s3Calls.uploadPart >= 1
                      /\ objectCompleted
        /\ upResult = "key" => upPc = "done"

C18_Witness ==
    /\ upInput.size = MULTIPART_THRESHOLD
    /\ upInput.onProgress
    /\ upResult = "key"
    /\ s3Calls = [NoCalls EXCEPT !.put = 1]
    /\ Len(progress) = 2
    /\ progress[1].percentage = 0
    /\ progress[2].percentage = 100

\* C19: while fewer than maxAttempts attempts have failed, all of them with
\* retryable errors, withRetry has surfaced nothing and is still running;
\* when the attempt after k such failures succeeds, withRetry returns the
\* value of the operation, having invoked it exactly k + 1 times and slept
\* k times.
C19_TransientThenSuccess ==
    /\ (AllRetryable(history) /\ Len(history) < retryConfig.maxAttempts) =>
           /\ rPc # "done"
           /\ rResult = NoResult
           /\ signOuts = 0
    /\ (history # <<>> /\ Last(history) = "ok") =>
           /\ rPc = "done"
           /\ rResult = OkResult
           /\ invocations = Len(history)
           /\ Len(sleeps) = Len(history) - 1
           /\ Len(history) <= retryConfig.maxAttempts
           /\ \A i \in 1..Len(history) - 1 : history[i] \in {"retryable", "both"}

C19_Witness ==
    /\ history = <<"retryable", "retryable", "ok">>
    /\ rPc = "done"
    /\ rResult = OkResult
    /\ invocations = 3

\* C20: when every one of the maxAttempts attempts failed with a retryable
\* error, withRetry throws the AWSError made from the error of the last
\* attempt, with retryable = true and that error's code, status and message
\* (the default message when it has none); a run ended by a fatal error
\* throws an AWSError with retryable = false.
C20_ExhaustedIsRetryable ==
    /\ (/\ rPc = "done"
        /\ retryConfig.maxAttempts >= 1
        /\ Len(history) = retryConfig.maxAttempts
        /\ \A i \in 1..Len(history) : history[i] = "retryable") =>
           /\ rResult.type = "AWSError"
           /\ rResult.retryable = TRUE
           /\ rResult.code = lastError.code
           /\ rResult.statusCode =
                  (IF lastError.statusCode # 0 THEN lastError.statusCode
                   ELSE lastError.metaStatus)
           /\ rResult.message =
                  (IF lastError.message # <<>> THEN lastError.message
                   ELSE TemporaryMessage)
           /\ invocations = retryConfig.maxAttempts
    /\ (rPc = "done" /\ history # <<>> /\ Last(history) = "fatal") =>
           /\ rResult.type = "AWSError"
           /\ rResult.retryable = FALSE

C20_Witness ==
    /\ rPc = "done"
    /\ history = <<"retryable", "retryable", "retryable">>
    /\ lastError.code = "ThrottlingException"
    /\ lastError.statusCode = 503
    /\ rResult.retryable = TRUE
    /\ rResult.code = "ThrottlingException"
    /\ rResult.statusCode = 503

\* C21: the first sleep of a withRetry run is initialDelay, every later
\* sleep is the one before it times backoffMultiplier, capped at maxDelay;
\* the sleeps never decrease and none is longer than maxDelay.
C21_BackoffMonotoneBounded ==
    /\ sleeps # <<>> => sleeps[1] = retryConfig.initialDelay
    /\ \A i \in 1..Len(sleeps) - 1 :
           /\ sleeps[i + 1] =
                  (IF sleeps[i] * retryConfig.backoffMultiplier < retryConfig.maxDelay
                   THEN sleeps[i] * retryConfig.backoffMultiplier
                   ELSE retryConfig.maxDelay)
           /\ sleeps[i] <= sleeps[i + 1]
    /\ \A i \in 1..Len(sleeps) : sleeps[i] <= retryConfig.maxDelay

\* The report is Math.round(loaded / total * 100) of its own loaded and total.
RoundedPercentage(report) ==
    /\ 2 * (100 * report.loaded - report.percentage * report.total) < report.total
    /\ 2 * (report.percentage * report.total - 100 * report.loaded) <= report.total

\* C22: the percentages delivered to onProgress during one upload never
\* decrease, whatever order the part uploads finish in; the i-th report of a
\* multipart upload carries the added sizes of the i parts that have
\* finished so far over the size of the file; and the last report of an
\* upload that returns its key is 100%.
C22_ProgressMonotone ==
    LET S == upInput.size
        numParts == Len(parts)
        lastSize == S - (numParts - 1) * PART_SIZE
    IN  /\ \A i \in 1..Len(progress) - 1 :
               /\ progress[i].percentage <= progress[i + 1].percentage
               /\ progress[i].loaded <= progress[i + 1].loaded
        /\ \A i \in 1..Len(progress) :
               /\ progress[i].total = S
               /\ progress[i].percentage \in 0..100
               /\ RoundedPercentage(progress[i])
        /\ S > MULTIPART_THRESHOLD =>
               /\ Len(progress) <= numParts + 1
               /\ \A i \in 1..Len(progress) :
                      IF i <= numParts
                      THEN progress[i].loaded
                               \in {i * PART_SIZE, (i - 1) * PART_SIZE + lastSize}
                      ELSE progress[i].loaded = S /\ objectCompleted
               /\ (progress # <<>> /\ Len(progress) <= numParts) =>
                      Last(progress).loaded = uploadedBytes
        /\ (upResult = "key" /\ upInput.onProgress) =>
               /\ Last(progress).percentage = 100
               /\ Last(progress).loaded = S

C22_Witness ==
    /\ upInput.size = 25
    /\ upResult = "key"
    /\ Len(progress) = 4
    /\ progress[1].loaded = 5  /\ progress[1].percentage = 20
    /\ progress[2].loaded = 15 /\ progress[2].percentage = 60
    /\ progress[3].loaded = 25 /\ progress[3].percentage = 100
    /\ progress[4].percentage = 100

\* At most one interval is set, and it is the one refreshInterval holds.
OneOwnedTimer ==
    /\ Cardinality(timers) <= 1
    /\ \A t \in timers : t.id = refreshInterval
    /\ refreshInterval = NoTimer <=> timers = {}

\* C23: at most one refresh interval is set at any time and it is the one
\* refreshInterval holds, so startCredentialRefresh() replaces the interval
\* set before; stopCredentialRefresh() leaves none set and changes nothing
\* else, and nothing at all when none was set; and while none is set no
\* callback of the timer runs, so none calls the identity provider.
C23_RefreshOwnedAndCancellable ==
    [][/\ OneOwnedTimer
       /\ OneOwnedTimer'
       /\ timersCreated' # timersCreated =>
              /\ refreshInterval' = timersCreated'
              /\ \E t \in timers' : t.id = timersCreated'
       /\ (refreshInterval # NoTimer /\ refreshInterval' = NoTimer) =>
              /\ timers' = {}
              /\ UNCHANGED <<credentialCache, getCred, issued, timersCreated>>
       /\ refreshInterval = NoTimer =>
              /\ ~TimerTicks
              /\ getCred'[Timer].pc = "fetching" => getCred[Timer].pc = "fetching"]_vars

C23_Witness ==
    /\ timersCreated = 2
    /\ refreshInterval = NoTimer
    /\ timers = {}
    /\ getCred[Timer].result = "fetched"

\* users/{userId}/documents/ written out, and the test that a key begins
\* with it.
UnderUserDocuments(key, userId) ==
    LET scope == <<"u", "s", "e", "r", "s", "/">> \o userId
                     \o <<"/", "d", "o", "c", "u", "m", "e", "n", "t", "s", "/">>
    IN  /\ Len(key) >= Len(scope)
        /\ \A i \in 1..Len(scope) : key[i] = scope[i]

\* C24: every key an upload puts into a command (PutObject,
\* CreateMultipartUpload, UploadPart, CompleteMultipartUpload,
\* AbortMultipartUpload) and the key it returns is one and the same key,
\* and that key begins with users/{userId}/documents/ for the user id
\* getUserId resolved, whatever the file name.
C24_KeysUnderUserPrefix ==
    /\ \A sent \in sentKeys :
           /\ sent.Key = upKey
           /\ UnderUserDocuments(sent.Key, upUserId)
    /\ upResult = "key" => UnderUserDocuments(upKey, upUserId)

\* A multipart upload of a file named ../x by user b that sent the create,
\* part, complete and abort commands.
C24_Witness ==
    /\ upPc = "done"
    /\ upInput.name = <<".", ".", "/", "x">>
    /\ upUserId = UserB
    /\ {sent.command : sent \in sentKeys} =
           {"create", "uploadPart", "complete", "abort"}
    /\ upKey = <<"u", "s", "e", "r", "s", "/", "b", "/", "d", "o", "c", "u",
                 "m", "e", "n", "t", "s", "/", "1", "_", ".", ".", "_", "x">>

\* C25: a reset() step leaves the breaker closed with failures and
\* halfOpenAttempts at zero, whatever state it was in, and an execute()
\* call that comes next, at any later time, calls its operation instead of
\* being rejected.
C25_ResetCloses ==
    [][/\ cbLast'.kind = "reset" =>
              /\ cb'.state = "closed"
              /\ cb'.failures = 0
              /\ cb'.halfOpenAttempts = 0
       /\ (cbLast.kind = "reset" /\ cbLast'.kind \in {"started", "rejected"}) =>
              /\ cbLast'.kind = "started"
              /\ cbCalls'[cbLast'.caller] = "inflight"]_vars

\* reset() was called on an open breaker whose reset timeout has not
\* elapsed, so that an execute() would have been rejected without it.
C25_Witness ==
    /\ cbLast.kind = "reset"
    /\ cbLast.from = "open"
    /\ now - cb.lastFailureTime <= cbConfig.resetTimeout
    /\ \E c \in Callers : cbCalls[c] = "idle"

\* The character c is the letter l in either case.
IsLetterOf(c, l) ==
    \E i \in DOMAIN LowerChars : LowerChars[i] = l /\ c \in {l, UpperChars[i]}

\* 'unauthorized' occurs in message, in any mix of cases.
MentionsUnauthorized(message) ==
    LET word == <<"u", "n", "a", "u", "t", "h", "o", "r", "i", "z", "e", "d">>
    IN  \E start \in 0..(Len(message) - Len(word)) :
            \A j \in 1..Len(word) : IsLetterOf(message[start + j], word[j])

\* C26: for every raw error, isRetryableError holds exactly when the error
\* carries retryable = true, or its code is one of the seven transient /
\* throttling codes, or its statusCode or its $metadata.httpStatusCode is
\* one of 429, 500, 502, 503, 504; isAuthError holds exactly when its code
\* is one of the eight authorization codes, or one of the two status
\* fields is 401 or 403, or its message contains 'unauthorized' in any
\* case; an error that is neither is thrown by handleAWSError as an
\* AWSError with retryable = false that keeps the error's own message.
C26_ClassificationTable ==
    classified.done =>
        LET error == classified.error
            transient ==
                {"ProvisionedThroughputExceededException", "ThrottlingException",
                 "RequestLimitExceeded", "ServiceUnavailable", "RequestTimeout",
                 "RequestTimeoutException", "NetworkingError"}
            authorization ==
                {"UnauthorizedException", "AccessDeniedException",
                 "TokenRefreshRequired", "InvalidUserPoolConfigurationException",
                 "NotAuthorizedException", "UserNotFoundException",
                 "PasswordResetRequiredException", "UserNotConfirmedException"}
            retryable ==
                \/ error.retryable
                \/ error.code \in transient
                \/ error.statusCode \in {429, 500, 502, 503, 504}
                \/ error.metaStatus \in {429, 500, 502, 503, 504}
            auth ==
                \/ error.code \in authorization
                \/ error.statusCode \in {401, 403}
                \/ error.metaStatus \in {401, 403}
                \/ MentionsUnauthorized(error.message)
        IN  /\ classified.isRetryableError <=> retryable
            /\ classified.isAuthError <=> auth
            /\ (~retryable /\ ~auth) =>
                   /\ classified.thrown.type = "AWSError"
                   /\ ~classified.thrown.retryable
                   /\ error.message # <<>> =>
                          classified.thrown.message = error.message

\* An error whose only mark is a mixed-case 'UnAuthorized' in its message
\* has been classified as an auth failure and not as retryable.
C26_Witness ==
    /\ classified.done
    /\ classified.error.code = "ValidationException"
    /\ classified.error.statusCode = 400
    /\ classified.error.metaStatus = 404
    /\ ~classified.error.retryable
    /\ classified.error.message = MsgUnauthorizedMixed
    /\ classified.isAuthError
    /\ ~classified.isRetryableError

\* C27: a multipartUpload call that obtained an uploadId and has ended
\* has either returned the key after a completed upload, or it has thrown
\* and, before throwing, sent an AbortMultipartUploadCommand carrying that
\* uploadId and the upload's key; a call that is awaiting its abort has
\* not thrown yet.
C27_FailureAborts ==
    /\ (upPc = "done" /\ uploadId # 0) =>
           \/ upResult = "key" /\ objectCompleted
           \/ /\ upResult = "Failed to upload large file"
              /\ s3Calls.abort >= 1
              /\ \E sent \in sentKeys :
                     /\ sent.command = "abort"
                     /\ sent.UploadId = uploadId
                     /\ sent.Key = upKey
    /\ upPc = "aborting" => upResult = "none"
    /\ \A sent \in sentKeys :
           sent.command = "abort" => sent.UploadId = uploadId /\ uploadId # 0

\* The CompleteMultipartUploadCommand of an upload with uploadId 2 was
\* rejected after every part had succeeded, and the call has thrown.
C27_Witness ==
    /\ upPc = "done"
    /\ uploadId = 2
    /\ s3Calls.complete = 1
    /\ ~objectCompleted
    /\ AllPartsOk(parts)
    /\ upResult = "Failed to upload large file"
    /\ s3Calls.abort = 1

\* C28: when the AbortMultipartUploadCommand has been sent, every part
\* closure of the upload has settled: none is still reading its slice and
\* none is awaiting its UploadPartCommand.
C28_AbortAfterPartsSettle ==
    (\E sent \in sentKeys : sent.command = "abort") =>
        \A n \in DOMAIN parts : parts[n].status \in {"ok", "failed"}

\* C29: a send of the multipart flow (create, part, complete) that was
\* rejected with a retryable, non-auth error on an attempt before the last
\* one the retry policy allows is retried: that rejection alone neither
\* sends the abort command nor ends the upload with an error.
C29_MultipartCallsRetried ==
    \A r \in rejections :
        (/\ r.error.code = "ThrottlingException"
         /\ r.attempt < defaultRetryConfig.maxAttempts
         /\ Cardinality(rejections) = 1) =>
            /\ \A sent \in sentKeys : sent.command # "abort"
            /\ upResult = "none"

\* The breaker is closed exactly when fewer than failureThreshold failures
\* are counted.
ClosedIffBelowThreshold ==
    /\ cbConfig.failureThreshold >= 1
    /\ cb.state = "closed" <=> cb.failures < cbConfig.failureThreshold
    /\ cb.state \in {"open", "half-open"} =>
           cb.failures >= cbConfig.failureThreshold

\* A step that records the outcome of an execute() call applies it to the
\* breaker as it is at that step: a failure adds one to the failures
\* counted then and stamps the time, a success in half-open adds one to
\* the probes counted then, a success in closed clears the failures.
OutcomeApplied ==
    /\ (cbLast' # cbLast /\ cbLast'.kind = "failed") =>
           /\ cb'.failures = cb.failures + 1
           /\ cb'.lastFailureTime = now
           /\ cb'.halfOpenAttempts = cb.halfOpenAttempts
    /\ (cbLast' # cbLast /\ cbLast'.kind = "succeeded") =>
           /\ cb.state = "half-open" =>
                  cb'.halfOpenAttempts = cb.halfOpenAttempts + 1
           /\ cb.state = "closed" => cb'.failures = 0 /\ cb'.state = "closed"
           /\ cb.state = "open" => cb' = cb
           /\ cb'.lastFailureTime = cb.lastFailureTime

\* C30: under every interleaving of the execute() calls of several callers
\* and reset() on one breaker, every outcome is applied whole to the
\* breaker as it then is (no update is lost), and in every reachable state
\* the breaker is closed if and only if failures < failureThreshold, open
\* and half-open implying failures >= failureThreshold >= 1.
C30_AtomicOutcomes == []ClosedIffBelowThreshold /\ [][OutcomeApplied]_vars

\* Two execute() calls were in flight together: the failure of one opened
\* the breaker, and the success of the other, admitted while the breaker
\* was closed, has been recorded on the open breaker.
C30_Witness ==
    /\ cbLast.kind = "succeeded"
    /\ cbLast.from = "open"
    /\ cb.state = "open"
    /\ cb.failures >= cbConfig.failureThreshold
    /\ \A c \in Callers : cbCalls[c] = "idle"

\* C31: once uploadDocument has settled (returned the key or thrown), no
\* step calls onProgress again.
C31_NoProgressAfterSettle ==
    [][upPc = "done" => progress' = progress]_vars

\* A step in which op, the downstream operation, is invoked.
OpInvoked == cbLast' # cbLast /\ cbLast'.kind = "started"

\* C32: in withRetry(() => breaker.execute(op)), an attempt of the loop
\* invokes op only if the breaker is closed or half-open after admission,
\* and, when the breaker was open, only if more than resetTimeout has
\* passed since the last failure; an attempt made on an open breaker
\* before that is answered without invoking op.  A new withRetry call
\* leaves the breaker as the previous call left it, every failure of op
\* adds one to the breaker's count whatever the attempt number, and the
\* breaker opens as soon as that count reaches failureThreshold.
C32_RetriesRespectBreaker ==
    [][/\ OpInvoked =>
              /\ cb'.state \in {"closed", "half-open"}
              /\ cb.state = "open" =>
                     now - cb.lastFailureTime > cbConfig.resetTimeout
       /\ (/\ rPc = "loop"
           /\ invocations' = invocations + 1
           /\ cb.state = "open"
           /\ now - cb.lastFailureTime <= cbConfig.resetTimeout) =>
              /\ ~OpInvoked
              /\ cbLast'.kind = "rejected"
              /\ cb' = cb
       /\ (rPc = "done" /\ rPc' = "loop") => cb' = cb
       /\ (cbLast' # cbLast /\ cbLast'.kind = "failed") =>
              /\ cb'.failures = cb.failures + 1
              /\ cb'.failures >= cbConfig.failureThreshold =>
                     cb'.state = "open"]_vars

\* The breaker, with failureThreshold 2, is open after two separate
\* withRetry calls of one attempt each, and the attempt of a third call
\* has been answered by the open breaker without invoking op.
C32_Witness ==
    /\ cbConfig.failureThreshold = 2
    /\ retryConfig.maxAttempts = 1
    /\ cb.state = "open"
    /\ cb.failures = 2
    /\ invocations = 1
    /\ cbLast.kind = "rejected"
    /\ rPc = "done"
    /\ rResult.retryable

AbortRejected == \E r \in rejections : r.command = "abort"

\* C33: a multipartUpload call that sent the abort command and has ended
\* has thrown 'Failed to upload large file', the error it throws for the
\* upload failure, whether the abort command resolved or rejected; while
\* the abort is awaited nothing has been thrown.
C33_AbortFailureOnlyLogged ==
    /\ (upPc = "done" /\ s3Calls.abort >= 1) =>
           upResult = "Failed to upload large file"
    /\ AbortRejected =>
           /\ upPc = "done"
           /\ upResult = "Failed to upload large file"
           /\ s3Calls.abort = 1

\* The UploadPartCommand of a part was rejected, the abort command was
\* rejected as well, and the call has thrown.
C33_Witness ==
    /\ upPc = "done"
    /\ AbortRejected
    /\ \E r \in rejections : r.command = "uploadPart"
    /\ upResult = "Failed to upload large file"

\* C34: a multipartUpload call whose CreateMultipartUploadCommand was
\* rejected, or resolved without an UploadId, has sent no UploadPart, no
\* CompleteMultipartUpload and no AbortMultipartUpload command, and ends
\* by throwing 'Failed to upload large file'.
C34_FailedInitiationSendsNothing ==
    (s3Calls.create = 1 /\ upPc # "creating" /\ uploadId = 0) =>
        /\ s3Calls.uploadPart = 0
        /\ s3Calls.complete = 0
        /\ s3Calls.abort = 0
        /\ \A sent \in sentKeys : sent.command = "create"
        /\ parts = <<>>
        /\ ~objectCompleted
        /\ upPc = "done"
        /\ upResult = "Failed to upload large file"

\* The create command resolved without an UploadId and the call has
\* thrown.
C34_Witness ==
    /\ s3Calls.create = 1
    /\ uploadId = 0
    /\ rejections = {}
    /\ upPc = "done"
    /\ upResult = "Failed to upload large file"

\* C35: once the CompleteMultipartUploadCommand of a multipart upload has
\* succeeded, no abort command is sent for it and the call ends by
\* returning the key, also when the onProgress callback throws.
C35_NoAbortAfterComplete ==
    (objectCompleted /\ uploadId # 0) =>
        /\ s3Calls.abort = 0
        /\ upPc = "done" => upResult = "key"

\* More than resetTimeout has passed since the last failure.  Time only
\* grows and only a failing operation moves lastFailureTime (to now), so
\* once this holds it stops holding exactly when an operation fails again.
ResetTimeoutPassed == now - cb.lastFailureTime > cbConfig.resetTimeout

\* C36: whenever the breaker is open and more than resetTimeout has passed
\* since the last failure, then, callers going on calling execute(), either
\* an operation fails again or the breaker becomes closed.
C36_OpenIsNotAbsorbing ==
    (cb.state = "open" /\ ResetTimeoutPassed)
        ~> (cb.state = "closed" \/ ~ResetTimeoutPassed)

\* The breaker is open and its reset timeout has elapsed.
C36_Witness ==
    /\ cb.state = "open"
    /\ now - cb.lastFailureTime > cbConfig.resetTimeout
    /\ cbConfig.halfOpenRequests = 2
    /\ \A c \in Callers : cbCalls[c] = "idle"

\* C37: handleAWSError has thrown whenever it has finished, and what it
\* throws for an error object is an AWSError whose retryable flag is true
\* exactly when the error is retryable and not an auth failure; for an auth
\* failure nothing is thrown before signOut() has been called once and has
\* settled, and the AWSError thrown then is the authentication error with
\* retryable = false whether signOut() resolved or rejected; no other error
\* makes a signOut() call.
C37_AlwaysThrowsAuthFirst ==
    LET error == classified.error
        auth == isAuthError(error)
    IN  /\ classified.done =>
               /\ classified.thrown.type = "AWSError"
               /\ classified.thrown.retryable <=>
                      (isRetryableError(error) /\ ~auth)
               /\ auth =>
                      /\ classified.signOut \in {"resolved", "rejected"}
                      /\ signOuts = 1
                      /\ classified.thrown.message = AuthenticationMessage
               /\ ~auth => classified.signOut = "none" /\ signOuts = 0
        /\ ~classified.done => classified.thrown.type = "none"

\* handleAWSError has thrown for an error that is both retryable and an
\* auth failure, after its signOut() call rejected.
C37_Witness ==
    /\ classified.done
    /\ classified.signOut = "rejected"
    /\ signOuts = 1
    /\ classified.error.code = "ThrottlingException"
    /\ classified.error.statusCode = 401
    /\ classified.error.retryable
    /\ classified.thrown.type = "AWSError"
    /\ ~classified.thrown.retryable

\* C38: every call backoff(attempt) with attempt >= 1 returns a delay d
\* with min(initialDelay * backoffMultiplier^(attempt-1), maxDelay) <= d
\* <= maxDelay, whatever Math.random() returned, and the jitter it added
\* to the un-jittered delay is less than a tenth of that delay.
C38_BackoffWithinBounds ==
    backoff.called =>
        LET unjittered ==
                retryConfig.initialDelay
                    * Pow(retryConfig.backoffMultiplier, backoff.attempt - 1)
            cap == retryConfig.maxDelay
        IN  /\ backoff.attempt >= 1
            /\ Min(unjittered, cap) * BackoffScale <= backoff.delay
            /\ backoff.delay <= cap * BackoffScale
            /\ 0 <= backoff.jitter
            /\ 10 * backoff.jitter < unjittered * BackoffScale

\* A call whose un-jittered delay is below maxDelay and whose jitter would
\* carry it above: the function has returned maxDelay.
C38_Witness ==
    /\ backoff.called
    /\ backoff.random > 0
    /\ UnjitteredDelay(retryConfig, backoff.attempt)
           < retryConfig.maxDelay * BackoffScale
    /\ UnjitteredDelay(retryConfig, backoff.attempt) + backoff.jitter
           > retryConfig.maxDelay * BackoffScale
    /\ backoff.delay = retryConfig.maxDelay * BackoffScale

\* The UploadPartCommands of the transfer that have been sent and have not
\* settled yet.
PartsInFlight == {n \in DOMAIN parts : parts[n].status = "sending"}

\* C39: the part uploads of one transfer that are in flight at the same
\* time stay within a cap that does not grow with the number of parts, so
\* in the transfer of the largest file they are fewer than its parts.
C39_BoundedParallelism ==
    Cardinality(PartsInFlight) < NumParts(MaxFileSize)

\* C40: once the caller has given up an upload whose parts are being
\* transferred, no further UploadPartCommand is sent, and the
\* AbortMultipartUploadCommand is sent eventually (the parts in flight
\* having settled).
C40_CooperativeCancel ==
    /\ [][cancelled => s3Calls'.uploadPart = s3Calls.uploadPart]_vars
    /\ cancelled ~> (s3Calls.abort > 0)

====
